---- MODULE Spec2Model ----
(***************************************************************************)
(* Model of the agents_config resolution pipeline: environment             *)
(* substitution (app/agents_config/base.py), reference resolution and the  *)
(* typed construction of AIConfig / AgentConfig.                           *)
(*                                                                         *)
(* Strings are sequences of lexemes.  The lexemes "${env:", "${ref:", "}"  *)
(* and "." are the ones the scanners look at; every other lexeme stands    *)
(* for a run of ordinary characters.  Documents are trees of tagged nodes: *)
(* str, num, none, list and map (a map keeps its items in insertion order, *)
(* as a Python dict does).                                                 *)
(***************************************************************************)
EXTENDS Naturals, Sequences, FiniteSets, TLC

VARIABLES doc, env, pc, cur, prev, err, config

vars == <<doc, env, pc, cur, prev, err, config>>

\* ------------------------------------------------------------------------
\* Bounds of the model
\* ------------------------------------------------------------------------

\* longest string enumerated exhaustively for the substitution function
MaxLen == 4

\* depth of nested reference resolutions at which the interpreter gives up
\* (stands for Python's recursion limit)
RecursionLimit == 5
MaxPathLen == 3

\* longest list of tools given to validate_tools
MaxTools == 3

\* ------------------------------------------------------------------------
\* Lexemes and document nodes
\* ------------------------------------------------------------------------

ENV_OPEN == "${env:"
REF_OPEN == "${ref:"
CLOSE == "}"
DOT == "."

Str(s) == [t |-> "str", s |-> s]
Num(n) == [t |-> "num", n |-> n]
None == [t |-> "none"]
List(items) == [t |-> "list", items |-> items]
Map(items) == [t |-> "map", items |-> items]
Item(k, v) == [k |-> k, v |-> v]

NoErr == [kind |-> "none", name |-> <<>>]
Ok(v) == [ok |-> TRUE, v |-> v, err |-> NoErr]
Fail(kind, name) == [ok |-> FALSE, v |-> None, err |-> [kind |-> kind, name |-> name]]

\* ------------------------------------------------------------------------
\* Environment:  os.getenv
\* ------------------------------------------------------------------------

Unset == [set |-> FALSE, val |-> <<>>]
SetTo(s) == [set |-> TRUE, val |-> s]

\* os.getenv(name, ""): a default instead of None
getenv_default(E, name) ==
    IF name \in DOMAIN E /\ E[name].set THEN E[name] ELSE [set |-> TRUE, val |-> <<>>]

getenv(E, name) == IF name \in DOMAIN E THEN E[name] ELSE Unset

\* ------------------------------------------------------------------------
\* EnvSubstitutionMixin.substitute_env_vars
\* ------------------------------------------------------------------------

\* the position of the first "}" after position i, or 0 when there is none
NextClose(s, i) ==
    IF \E j \in (i + 1)..Len(s) : s[j] = CLOSE
    THEN CHOOSE j \in (i + 1)..Len(s) :
            /\ s[j] = CLOSE
            /\ \A m \in (i + 1)..(j - 1) : s[m] # CLOSE
    ELSE 0

\* pattern \$\{env:([^}]+)\} matches at position i
EnvMatchAt(s, i) == s[i] = ENV_OPEN /\ NextClose(s, i) > i + 1

RECURSIVE re_sub_env(_, _, _)
RECURSIVE re_sub_env_first(_, _, _)

\* re.sub(pattern, replace_env_var, value, count=1): only the first match
re_sub_env_first(s, i, E) ==
    IF i > Len(s) THEN Ok(<<>>)
    ELSE IF s[i] = ENV_OPEN /\ NextClose(s, i) > i + 1
    THEN IF ~getenv(E, SubSeq(s, i + 1, NextClose(s, i) - 1)).set
         THEN Fail("env", SubSeq(s, i + 1, NextClose(s, i) - 1))
         ELSE Ok(getenv(E, SubSeq(s, i + 1, NextClose(s, i) - 1)).val
                 \o SubSeq(s, NextClose(s, i) + 1, Len(s)))
    ELSE LET rest == re_sub_env_first(s, i + 1, E)
         IN  IF rest.ok THEN Ok(<<s[i]>> \o rest.v) ELSE rest

\* re.sub with a replacement that looks up env_var.strip()
re_sub_env_stripping(s, i, E) ==
    IF i > Len(s) THEN Ok(<<>>)
    ELSE IF EnvMatchAt(s, i)
    THEN LET j == NextClose(s, i)
             env_var == SelectSeq(SubSeq(s, i + 1, j - 1), LAMBDA c : c # " ")
             env_value == getenv(E, env_var)
         IN  IF ~env_value.set THEN Fail("env", env_var)
             ELSE LET rest == re_sub_env(s, j + 1, E)
                  IN  IF rest.ok THEN Ok(env_value.val \o rest.v) ELSE rest
    ELSE LET rest == re_sub_env(s, i + 1, E)
         IN  IF rest.ok THEN Ok(<<s[i]>> \o rest.v) ELSE rest

\* re.sub(pattern, replace_env_var, value) from position i on: the leftmost
\* match is replaced by the variable's value, which is not scanned again
re_sub_env(s, i, E) ==
    IF i > Len(s) THEN Ok(<<>>)
    ELSE IF EnvMatchAt(s, i)
    THEN LET j == NextClose(s, i)
             env_var == SubSeq(s, i + 1, j - 1)
             env_value == getenv(E, env_var)
         IN  IF ~env_value.set THEN Fail("env", env_var)
             ELSE LET rest == re_sub_env(s, j + 1, E)
                  IN  IF rest.ok THEN Ok(env_value.val \o rest.v) ELSE rest
    ELSE LET rest == re_sub_env(s, i + 1, E)
         IN  IF rest.ok THEN Ok(<<s[i]>> \o rest.v) ELSE rest

RECURSIVE substitute_env_vars(_, _)
RECURSIVE SubstituteItems(_, _, _)

\* the comprehensions, substituting in the keys of a mapping as well
substitute_items_and_keys(items, isMap, E) ==
    IF items = <<>> THEN Ok(<<>>)
    ELSE LET first == substitute_env_vars(IF isMap THEN Head(items).v ELSE Head(items), E)
             key == IF isMap THEN re_sub_env(Head(items).k, 1, E) ELSE Ok(<<>>)
         IN  IF ~first.ok THEN first
             ELSE IF ~key.ok THEN key
             ELSE LET rest == SubstituteItems(Tail(items), isMap, E)
                  IN  IF ~rest.ok THEN rest
                      ELSE Ok(<<IF isMap THEN Item(key.v, first.v)
                                         ELSE first.v>> \o rest.v)

\* the dict and list comprehensions: items are rebuilt left to right, keys
\* are copied, the first error raised ends the whole call
SubstituteItems(items, isMap, E) ==
    IF items = <<>> THEN Ok(<<>>)
    ELSE LET first == substitute_env_vars(IF isMap THEN Head(items).v ELSE Head(items), E)
         IN  IF ~first.ok THEN first
             ELSE LET rest == SubstituteItems(Tail(items), isMap, E)
                  IN  IF ~rest.ok THEN rest
                      ELSE Ok(<<IF isMap THEN Item(Head(items).k, first.v)
                                         ELSE first.v>> \o rest.v)

substitute_env_vars(value, E) ==
    CASE value.t = "str" ->
            LET r == re_sub_env(value.s, 1, E)
            IN  IF r.ok THEN Ok(Str(r.v)) ELSE r
      [] value.t = "map" ->
            LET r == SubstituteItems(value.items, TRUE, E)
            IN  IF r.ok THEN Ok(Map(r.v)) ELSE r
      [] value.t = "list" ->
            LET r == SubstituteItems(value.items, FALSE, E)
            IN  IF r.ok THEN Ok(List(r.v)) ELSE r
      [] OTHER -> Ok(value)

\* ------------------------------------------------------------------------
\* Properties of strings and trees used by the claims
\* ------------------------------------------------------------------------

\* every string scalar of a tree, at any depth
RECURSIVE StringsOf(_)
StringsOf(value) ==
    CASE value.t = "str" -> {value.s}
      [] value.t = "map" ->
            UNION {StringsOf(value.items[i].v) : i \in 1..Len(value.items)}
      [] value.t = "list" ->
            UNION {StringsOf(value.items[i]) : i \in 1..Len(value.items)}
      [] OTHER -> {}

HasLexeme(s, x) == \E i \in 1..Len(s) : s[i] = x

Range(seq) == {seq[i] : i \in 1..Len(seq)}

\* ------------------------------------------------------------------------
\* Inputs of the substitution function
\* ------------------------------------------------------------------------

EnvNames == {<<"X">>, <<"Y">>}

EnvToken(n) == <<ENV_OPEN>> \o n \o <<CLOSE>>

SubstAlphabet == {ENV_OPEN, CLOSE, "X", "Y"}

SubstStrings == UNION {[1..n -> SubstAlphabet] : n \in 0..MaxLen}

\* texts close to ${env:X}: upper case, a blank before or after the name
UpperToken == <<"${ENV:", "X", CLOSE>>
LeadingBlankToken == <<ENV_OPEN, " ", "X", CLOSE>>
TrailingBlankToken == <<ENV_OPEN, "X", " ", CLOSE>>

NearTokens == {UpperToken, LeadingBlankToken, TrailingBlankToken}

SubstPool ==
    { <<"prefix-">> \o EnvToken(<<"X">>) \o <<"-suffix">>,
      EnvToken(<<"X">>) \o EnvToken(<<"Y">>),
      <<"plain">> } \cup NearTokens

\* the variable names with a blank, which os.getenv looks up as they are
BlankNames == {<<" ", "X">>, <<"X", " ">>}

SubstEnvs ==
    { [n \in EnvNames \cup BlankNames |->
            IF n = <<"X">> THEN x ELSE IF n = <<"Y">> THEN y ELSE b] :
        x \in {Unset, SetTo(<<"val">>), SetTo(EnvToken(<<"Y">>))},
        y \in {Unset, SetTo(<<"w">>)},
        b \in {Unset, SetTo(<<"blank">>)} }

SubstTree(s1, s2) ==
    Map(<< Item(<<"a">>, Str(s1)),
           Item(<<"b">>, List(<<Str(s2), Num(7)>>)),
           Item(EnvToken(<<"X">>), None) >>)

InitSubst ==
    /\ \E s1 \in SubstStrings, s2 \in SubstPool : doc = SubstTree(s1, s2)
    /\ env \in SubstEnvs
    /\ pc = "start"
    /\ cur = None
    /\ prev = None
    /\ err = NoErr
    /\ config = None

\* one call of substitute_env_vars on the input tree
Substitute ==
    /\ pc = "start"
    /\ LET r == substitute_env_vars(doc, env)
       IN  /\ pc' = IF r.ok THEN "once" ELSE "raised"
           /\ cur' = r.v
           /\ err' = r.err
    /\ prev' = doc
    /\ UNCHANGED <<doc, env, config>>

\* a second call, on the result of the first
SubstituteAgain ==
    /\ pc = "once"
    /\ LET r == substitute_env_vars(cur, env)
       IN  /\ pc' = IF r.ok THEN "twice" ELSE "raised_again"
           /\ cur' = r.v
           /\ err' = r.err
    /\ prev' = cur
    /\ UNCHANGED <<doc, env, config>>

NextSubst == Substitute \/ SubstituteAgain

SpecSubst == InitSubst /\ [][NextSubst]_vars

\* ------------------------------------------------------------------------
\* Reference resolution (ConfigLoader)
\* ------------------------------------------------------------------------

\* str.split(".") on a dotted path
RECURSIVE SplitPath(_)
SplitPath(p) ==
    IF ~HasLexeme(p, DOT) THEN <<p>>
    ELSE LET i == CHOOSE i \in 1..Len(p) :
                    p[i] = DOT /\ \A m \in 1..(i - 1) : p[m] # DOT
         IN  <<SubSeq(p, 1, i - 1)>> \o SplitPath(SubSeq(p, i + 1, Len(p)))

NotFound == [found |-> FALSE, v |-> None]
Found(v) == [found |-> TRUE, v |-> v]

\* the value under key in a mapping node
MapGet(node, key) ==
    IF node.t = "map" /\ \E i \in 1..Len(node.items) : node.items[i].k = key
    THEN Found(node.items[CHOOSE i \in 1..Len(node.items) : node.items[i].k = key].v)
    ELSE NotFound

\* traversal of the root document along the segments of a path: every
\* segment is a key of the mapping reached so far
RECURSIVE LookupPath(_, _)
LookupPath(node, segs) ==
    IF segs = <<>> THEN Found(node)
    ELSE LET step == MapGet(node, Head(segs))
         IN  IF step.found THEN LookupPath(step.v, Tail(segs)) ELSE NotFound

\* pattern \$\{ref:([^}]+)\} matches at position i
RefMatchAt(s, i) == s[i] = REF_OPEN /\ NextClose(s, i) > i + 1

\* the whole string is one reference
IsWholeRef(s) == Len(s) >= 3 /\ s[1] = REF_OPEN /\ NextClose(s, 1) = Len(s)

RECURSIVE resolve_value(_, _, _, _)
RECURSIVE resolve_path(_, _, _, _)
RECURSIVE resolve_embedded(_, _, _, _, _)
RECURSIVE ResolveItems(_, _, _, _, _)

\* resolve_path without the test for a path in progress
resolve_path_unchecked(path, root, stack, depth) ==
    LET target == LookupPath(root, SplitPath(path))
    IN  IF ~target.found THEN Fail("notfound", path)
        ELSE IF depth >= RecursionLimit THEN Fail("recursion", path)
        ELSE resolve_value(target.v, root, stack \cup {path}, depth + 1)

\* resolve_path that remembers only the path it was last asked for
resolve_path_forgetful(path, root, stack, depth) ==
    IF path \in stack THEN Fail("circular", path)
    ELSE LET target == LookupPath(root, SplitPath(path))
         IN  IF ~target.found THEN Fail("notfound", path)
             ELSE IF depth >= RecursionLimit THEN Fail("recursion", path)
             ELSE resolve_value(target.v, root, {path}, depth + 1)

\* resolve_path that leaves a reference it cannot find in place
resolve_path_lenient(path, root, stack, depth) ==
    IF path \in stack THEN Fail("circular", path)
    ELSE LET target == LookupPath(root, SplitPath(path))
         IN  IF ~target.found THEN Ok(Str(<<REF_OPEN>> \o path \o <<CLOSE>>))
             ELSE IF depth >= RecursionLimit THEN Fail("recursion", path)
             ELSE resolve_value(target.v, root, stack \cup {path}, depth + 1)

\* resolve_path that hands out the target as it stands in the document
resolve_path_shallow(path, root, stack, depth) ==
    IF path \in stack THEN Fail("circular", path)
    ELSE LET target == LookupPath(root, SplitPath(path))
         IN  IF ~target.found THEN Fail("notfound", path) ELSE Ok(target.v)

\* the value at path, fully resolved; stack is the set of paths in progress
resolve_path(path, root, stack, depth) ==
    IF path \in stack THEN Fail("circular", path)
    ELSE LET target == LookupPath(root, SplitPath(path))
         IN  IF ~target.found THEN Fail("notfound", path)
             ELSE IF depth >= RecursionLimit THEN Fail("recursion", path)
             ELSE resolve_value(target.v, root, stack \cup {path}, depth + 1)

\* resolve_embedded that splices a rendering of whatever the path holds
resolve_embedded_rendering(s, i, root, stack, depth) ==
    IF i > Len(s) THEN Ok(<<>>)
    ELSE IF RefMatchAt(s, i)
    THEN LET j == NextClose(s, i)
             r == resolve_path(SubSeq(s, i + 1, j - 1), root, stack, depth)
         IN  IF ~r.ok THEN r
             ELSE LET text == IF r.v.t = "str" THEN r.v.s ELSE <<"{...}">>
                      rest == resolve_embedded(s, j + 1, root, stack, depth)
                  IN  IF rest.ok THEN Ok(text \o rest.v) ELSE rest
    ELSE LET rest == resolve_embedded(s, i + 1, root, stack, depth)
         IN  IF rest.ok THEN Ok(<<s[i]>> \o rest.v) ELSE rest

\* references embedded in a longer string are replaced by text
resolve_embedded(s, i, root, stack, depth) ==
    IF i > Len(s) THEN Ok(<<>>)
    ELSE IF RefMatchAt(s, i)
    THEN LET j == NextClose(s, i)
             r == resolve_path(SubSeq(s, i + 1, j - 1), root, stack, depth)
         IN  IF ~r.ok THEN r
             ELSE IF r.v.t \notin {"str", "num"}
             THEN Fail("embedded", SubSeq(s, i + 1, j - 1))
             ELSE LET text == IF r.v.t = "str" THEN r.v.s ELSE <<r.v.n>>
                      rest == resolve_embedded(s, j + 1, root, stack, depth)
                  IN  IF rest.ok THEN Ok(text \o rest.v) ELSE rest
    ELSE LET rest == resolve_embedded(s, i + 1, root, stack, depth)
         IN  IF rest.ok THEN Ok(<<s[i]>> \o rest.v) ELSE rest

ResolveItems(items, isMap, root, stack, depth) ==
    IF items = <<>> THEN Ok(<<>>)
    ELSE LET first == resolve_value(IF isMap THEN Head(items).v ELSE Head(items),
                                    root, stack, depth)
         IN  IF ~first.ok THEN first
             ELSE LET rest == ResolveItems(Tail(items), isMap, root, stack, depth)
                  IN  IF ~rest.ok THEN rest
                      ELSE Ok(<<IF isMap THEN Item(Head(items).k, first.v)
                                         ELSE first.v>> \o rest.v)

resolve_value(value, root, stack, depth) ==
    CASE value.t = "str" ->
            IF IsWholeRef(value.s)
            THEN resolve_path(SubSeq(value.s, 2, Len(value.s) - 1), root, stack, depth)
            ELSE LET r == resolve_embedded(value.s, 1, root, stack, depth)
                 IN  IF r.ok THEN Ok(Str(r.v)) ELSE r
      [] value.t = "map" ->
            LET r == ResolveItems(value.items, TRUE, root, stack, depth)
            IN  IF r.ok THEN Ok(Map(r.v)) ELSE r
      [] value.t = "list" ->
            LET r == ResolveItems(value.items, FALSE, root, stack, depth)
            IN  IF r.ok THEN Ok(List(r.v)) ELSE r
      [] OTHER -> Ok(value)

\* the reference pass over the whole document
resolve_references(root) == resolve_value(root, root, {}, 0)

\* ------------------------------------------------------------------------
\* Typed construction: ModelConfig, tool entities, SystemPromptConfig,
\* AgentConfig, AIConfig
\* ------------------------------------------------------------------------

Has(node, key) == MapGet(node, key).found
Get(node, key) == MapGet(node, key).v
HasStr(node, key) == MapGet(node, key).found /\ MapGet(node, key).v.t = "str"
OptionalOf(node, key, kinds) ==
    ~MapGet(node, key).found \/ MapGet(node, key).v.t \in kinds \cup {"none"}
OrElse(node, key, default) ==
    IF MapGet(node, key).found THEN MapGet(node, key).v ELSE default

EndsWith(s, suffix) ==
    Len(s) >= Len(suffix) /\ SubSeq(s, Len(s) - Len(suffix) + 1, Len(s)) = suffix

\* one line of a validation error: the location and the rule violated
Violation(at, what) == [at |-> at, what |-> what]

\* the violation when the rule is broken, nothing otherwise
Unless(holds, at, what) == IF holds THEN {} ELSE {Violation(at, what)}

ProviderAllowList == {<<"azure_openai">>, <<"openai">>}

\* the field errors of a Model: provider of the allow-list, non-empty id and
\* version, a mapping as config, optional params and name
ModelViolations(node, at) ==
    IF node.t # "map" THEN {Violation(at, "model")}
    ELSE Unless(HasStr(node, <<"provider">>)
                    /\ Get(node, <<"provider">>).s \in ProviderAllowList,
                Append(at, <<"provider">>), "provider")
         \cup Unless(HasStr(node, <<"id">>) /\ Get(node, <<"id">>).s # <<>>,
                     Append(at, <<"id">>), "id")
         \cup Unless(HasStr(node, <<"version">>) /\ Get(node, <<"version">>).s # <<>>,
                     Append(at, <<"version">>), "version")
         \cup Unless(Has(node, <<"config">>) /\ Get(node, <<"config">>).t = "map",
                     Append(at, <<"config">>), "config")
         \cup Unless(OptionalOf(node, <<"params">>, {"map"}),
                     Append(at, <<"params">>), "params")
         \cup Unless(OptionalOf(node, <<"name">>, {"str"}),
                     Append(at, <<"name">>), "name")

\* a Model entity built from any mapping, whatever its fields
model_config_unvalidated(node) ==
    IF node.t # "map" THEN Fail("validation", <<"model">>)
    ELSE Ok([cls |-> "ModelConfig",
             provider |-> OrElse(node, <<"provider">>, Str(<<>>)).s,
             id |-> OrElse(node, <<"id">>, Str(<<>>)).s,
             version |-> OrElse(node, <<"version">>, Str(<<>>)).s,
             config |-> OrElse(node, <<"config">>, Map(<<>>)),
             params |-> OrElse(node, <<"params">>, None),
             name |-> OrElse(node, <<"name">>, None)])

\* a Model entity
ModelConfig(node) ==
    IF ModelViolations(node, <<>>) = {}
    THEN Ok([cls |-> "ModelConfig",
             provider |-> Get(node, <<"provider">>).s,
             id |-> Get(node, <<"id">>).s,
             version |-> Get(node, <<"version">>).s,
             config |-> Get(node, <<"config">>),
             params |-> OrElse(node, <<"params">>, None),
             name |-> OrElse(node, <<"name">>, None)])
    ELSE Fail("validation", <<"model">>)

\* the OpenAPI-backed tool: a schema path, optional name, version, headers
OpenAPIToolConfig(node) ==
    IF /\ node.t = "map"
       /\ HasStr(node, <<"schema_path">>)
       /\ OptionalOf(node, <<"name">>, {"str"})
       /\ OptionalOf(node, <<"headers">>, {"map"})
    THEN Ok([cls |-> "OpenAPIToolConfig",
             name |-> OrElse(node, <<"name">>, None),
             schema_path |-> Get(node, <<"schema_path">>).s,
             headers |-> OrElse(node, <<"headers">>, None)])
    ELSE Fail("validation", <<"openapi tool">>)

\* the platform-native tool: name, description, type tag, connection
\* identifiers, nested config
AIFoundryToolConfig(node) ==
    IF /\ node.t = "map"
       /\ HasStr(node, <<"name">>)
       /\ HasStr(node, <<"description">>)
       /\ HasStr(node, <<"type">>)
       /\ OptionalOf(node, <<"connection_ids">>, {"list"})
       /\ OptionalOf(node, <<"config">>, {"map"})
    THEN Ok([cls |-> "AIFoundryToolConfig",
             name |-> Get(node, <<"name">>),
             description |-> Get(node, <<"description">>).s,
             type |-> Get(node, <<"type">>).s,
             connection_ids |-> OrElse(node, <<"connection_ids">>, None),
             config |-> OrElse(node, <<"config">>, None)])
    ELSE Fail("validation", <<"ai_foundry tool">>)

\* one element of convert_tools_to_objects: a string was not resolved, a
\* mapping with schema_path and no type is an OpenAPI tool, any other
\* mapping an AI Foundry tool
ConvertTool(tool) ==
    IF tool.t = "str"
    THEN Fail("validation", <<"tool reference was not resolved">>)
    ELSE IF tool.t = "map"
    THEN IF Has(tool, <<"schema_path">>) /\ ~Has(tool, <<"type">>)
         THEN OpenAPIToolConfig(tool)
         ELSE AIFoundryToolConfig(tool)
    ELSE Fail("validation", <<"tool must be a configuration object or dictionary">>)

JoinTools(first, rest) ==
    IF ~first.ok THEN first
    ELSE IF ~rest.ok THEN rest
    ELSE Ok(<<first.v>> \o rest.v)

\* the loop of convert_tools_to_objects: the tools in order, the first error
\* raised ends the conversion
RECURSIVE ConvertTools(_)
ConvertTools(tools) ==
    IF tools = <<>> THEN Ok(<<>>)
    ELSE JoinTools(ConvertTool(Head(tools)), ConvertTools(Tail(tools)))

\* the conversion that loses the first tool
convert_tools_dropping(tools) ==
    ConvertTools(IF tools = <<>> THEN tools ELSE Tail(tools))

\* the conversion whose discriminator looks at schema_path only
RECURSIVE convert_tools_by_schema_path(_)
convert_tools_by_schema_path(tools) ==
    IF tools = <<>> THEN Ok(<<>>)
    ELSE JoinTools(IF Head(tools).t = "map" /\ Has(Head(tools), <<"schema_path">>)
                   THEN OpenAPIToolConfig(Head(tools))
                   ELSE ConvertTool(Head(tools)),
                   convert_tools_by_schema_path(Tail(tools)))

\* AgentConfig.convert_tools_to_objects
convert_tools_to_objects(tools) == ConvertTools(tools)

\* the entities of a mapping of tools, in the order of its keys
RECURSIVE BuildTools(_, _)
JoinEntries(key, first, rest) ==
    IF ~first.ok THEN first
    ELSE IF ~rest.ok THEN rest
    ELSE Ok(<<Item(key, first.v)>> \o rest.v)

BuildTools(items, native) ==
    IF items = <<>> THEN Ok(<<>>)
    ELSE JoinEntries(Head(items).k,
                     IF native THEN AIFoundryToolConfig(Head(items).v)
                               ELSE OpenAPIToolConfig(Head(items).v),
                     BuildTools(Tail(items), native))

\* the native-tools section: its defaults and its mapping of tools
AIFoundryConfig(node) ==
    IF node.t = "none" THEN Ok(None)
    ELSE IF node.t # "map" \/ OrElse(node, <<"tools">>, Map(<<>>)).t # "map"
    THEN Fail("validation", <<"ai_foundry">>)
    ELSE IF ~BuildTools(OrElse(node, <<"tools">>, Map(<<>>)).items, TRUE).ok
    THEN Fail("validation", <<"ai_foundry tool">>)
    ELSE Ok([cls |-> "AIFoundryConfig",
             default_project_endpoint |->
                 OrElse(node, <<"default_project_endpoint">>, None),
             tools |-> BuildTools(OrElse(node, <<"tools">>, Map(<<>>)).items, TRUE).v])

\* the Tools container: a mapping of OpenAPI tools and a native-tools section
ToolsConfig(node) ==
    IF node.t # "map" \/ OrElse(node, <<"openapi">>, Map(<<>>)).t # "map"
    THEN Fail("validation", <<"tools">>)
    ELSE IF ~BuildTools(OrElse(node, <<"openapi">>, Map(<<>>)).items, FALSE).ok
    THEN Fail("validation", <<"openapi tool">>)
    ELSE IF ~AIFoundryConfig(OrElse(node, <<"ai_foundry">>, None)).ok
    THEN AIFoundryConfig(OrElse(node, <<"ai_foundry">>, None))
    ELSE Ok([cls |-> "ToolsConfig",
             openapi |-> BuildTools(OrElse(node, <<"openapi">>, Map(<<>>)).items, FALSE).v,
             ai_foundry |-> AIFoundryConfig(OrElse(node, <<"ai_foundry">>, None)).v])

\* validate_prompt_path that takes the extension in any case
validate_prompt_path_any_case(v) ==
    \E ext \in {"md", "MD", "txt", "TXT"} : EndsWith(v, <<DOT, ext>>)

\* SystemPromptConfig.validate_prompt_path
validate_prompt_path(v) ==
    EndsWith(v, <<DOT, "md">>) \/ EndsWith(v, <<DOT, "txt">>)

\* the field errors of a SystemPromptConfig, of the substituted values
SystemPromptViolations(sub, at) ==
    IF ~sub.ok THEN {Violation(at, "environment")}
    ELSE IF sub.v.t # "map" THEN {Violation(at, "system_prompt")}
    ELSE Unless(HasStr(sub.v, <<"version">>), Append(at, <<"version">>), "version")
         \cup Unless(HasStr(sub.v, <<"path">>)
                        /\ validate_prompt_path(Get(sub.v, <<"path">>).s),
                     Append(at, <<"path">>), "path")

\* the fields of SystemPromptConfig, of the substituted values
SystemPromptFields(sub) ==
    IF ~sub.ok THEN Fail("validation", sub.err.name)
    ELSE IF /\ sub.v.t = "map"
            /\ HasStr(sub.v, <<"version">>)
            /\ HasStr(sub.v, <<"path">>)
            /\ validate_prompt_path(Get(sub.v, <<"path">>).s)
    THEN Ok([cls |-> "SystemPromptConfig",
             version |-> Get(sub.v, <<"version">>).s,
             path |-> Get(sub.v, <<"path">>).s])
    ELSE Fail("validation", <<"system_prompt">>)

\* SystemPromptConfig: substitute_environment_variables, then the fields
SystemPromptConfig(node, E) == SystemPromptFields(substitute_env_vars(node, E))

\* isinstance(value, str), of a document value or a built object
IsString(value) == "t" \in DOMAIN value /\ value.t = "str"

\* the loop of validate_tools: a string without "." raises, every other
\* element is appended to validated_tools
RECURSIVE ValidateToolsLoop(_)
ValidateToolsLoop(v) ==
    IF v = <<>> THEN Ok(<<>>)
    ELSE IF IsString(Head(v)) /\ ~HasLexeme(Head(v).s, DOT)
    THEN Fail("validation", <<"tool reference must be in format category.subcategory.name">>)
    ELSE JoinTools(Ok(Head(v)), ValidateToolsLoop(Tail(v)))

\* a pre-validation that keeps the dictionaries only
validate_tools_keeping_dicts(v) ==
    IF v.t # "list" THEN Fail("validation", <<"Tools must be a list">>)
    ELSE IF ~ValidateToolsLoop(v.items).ok THEN ValidateToolsLoop(v.items)
    ELSE Ok(SelectSeq(v.items, LAMBDA tool : "t" \in DOMAIN tool /\ tool.t = "map"))

\* AgentConfig.validate_tools: the value is a list, and the list of its
\* elements is returned
validate_tools(v) ==
    IF v.t # "list" THEN Fail("validation", <<"Tools must be a list">>)
    ELSE ValidateToolsLoop(v.items)

\* the model field that looks a string up as the name of a model
model_field_by_name(node) ==
    IF node.t = "str"
    THEN Ok([cls |-> "ModelConfig", provider |-> <<"azure_openai">>, id |-> <<"gpt-4">>,
             version |-> <<"1.0">>, config |-> Map(<<>>), params |-> None,
             name |-> node])
    ELSE ModelConfig(node)

\* the model field, Union[str, ModelConfig]: a string is kept, a mapping is
\* validated as a ModelConfig
ModelField(node) == IF node.t = "str" THEN Ok(node) ELSE ModelConfig(node)

\* AgentConfig.validate_model_reference: the model is no string
validate_model_reference(model) == ~IsString(model)

\* the fields of AgentConfig, then validate_model_reference, then
\* convert_tools_to_objects
AgentFields(values, model, tools, prompt) ==
    IF ~(/\ values.t = "map"
         /\ HasStr(values, <<"version">>)
         /\ HasStr(values, <<"name">>)
         /\ HasStr(values, <<"description">>)
         /\ HasStr(values, <<"platform">>)
         /\ Has(values, <<"model">>)
         /\ model.ok
         /\ validate_tools(tools).ok
         /\ \A i \in 1..Len(validate_tools(tools).v) :
                validate_tools(tools).v[i].t = "map"
         /\ prompt.ok)
    THEN Fail("validation", <<"agent">>)
    ELSE IF ~validate_model_reference(model.v)
    THEN Fail("validation", <<"model reference was not resolved">>)
    ELSE IF ~convert_tools_to_objects(validate_tools(tools).v).ok
    THEN convert_tools_to_objects(validate_tools(tools).v)
    ELSE Ok([cls |-> "AgentConfig",
             version |-> Get(values, <<"version">>).s,
             name |-> Get(values, <<"name">>).s,
             description |-> Get(values, <<"description">>).s,
             model |-> model.v,
             tools |-> convert_tools_to_objects(validate_tools(tools).v).v,
             platform |-> Get(values, <<"platform">>).s,
             system_prompt |-> prompt.v])

AgentValues(sub, E) ==
    IF ~sub.ok THEN Fail("validation", sub.err.name)
    ELSE AgentFields(sub.v,
                     ModelField(Get(sub.v, <<"model">>)),
                     OrElse(sub.v, <<"tools">>, List(<<>>)),
                     SystemPromptConfig(OrElse(sub.v, <<"system_prompt">>, None), E))

\* AgentConfig: substitute_environment_variables, then the fields
AgentConfig(node, E) == AgentValues(substitute_env_vars(node, E), E)

\* the place of the i-th element of a list in a location
Index(i) == <<<<"[0]", "[1]", "[2]", "[3]">>[i]>>

\* the errors of the tools field: validate_tools, then one error for every
\* element that is no mapping
ToolsFieldViolations(tools, at) ==
    IF ~validate_tools(tools).ok THEN {Violation(at, "tools")}
    ELSE { Violation(Append(at, Index(i)), "tool") :
             i \in {j \in 1..Len(validate_tools(tools).v) :
                        validate_tools(tools).v[j].t # "map"} }

\* the errors of the model field, Union[str, ModelConfig]
ModelFieldViolations(values, at) ==
    IF ~Has(values, <<"model">>) THEN {Violation(at, "model")}
    ELSE IF Get(values, <<"model">>).t = "str" THEN {}
    ELSE ModelViolations(Get(values, <<"model">>), at)

\* the field errors of an AgentConfig, of the substituted values
AgentFieldViolations(values, at, E) ==
    IF values.t # "map" THEN {Violation(at, "agent")}
    ELSE Unless(HasStr(values, <<"version">>), Append(at, <<"version">>), "version")
         \cup Unless(HasStr(values, <<"name">>), Append(at, <<"name">>), "name")
         \cup Unless(HasStr(values, <<"description">>),
                     Append(at, <<"description">>), "description")
         \cup Unless(HasStr(values, <<"platform">>),
                     Append(at, <<"platform">>), "platform")
         \cup ModelFieldViolations(values, Append(at, <<"model">>))
         \cup ToolsFieldViolations(OrElse(values, <<"tools">>, List(<<>>)),
                                   Append(at, <<"tools">>))
         \cup SystemPromptViolations(
                  substitute_env_vars(OrElse(values, <<"system_prompt">>, None), E),
                  Append(at, <<"system_prompt">>))

\* what the after-validators of an AgentConfig raise: they run only when no
\* field is in error, and the first one that raises ends the validation
AgentAfterViolations(values, at) ==
    IF ~validate_model_reference(ModelField(Get(values, <<"model">>)).v)
    THEN {Violation(Append(at, <<"model">>), "model reference was not resolved")}
    ELSE IF ~convert_tools_to_objects(
                validate_tools(OrElse(values, <<"tools">>, List(<<>>))).v).ok
    THEN {Violation(Append(at, <<"tools">>), "tool")}
    ELSE {}

\* the errors pydantic reports for one agent
AgentViolations(sub, at, E) ==
    IF ~sub.ok THEN {Violation(at, "environment")}
    ELSE IF AgentFieldViolations(sub.v, at, E) # {}
    THEN AgentFieldViolations(sub.v, at, E)
    ELSE AgentAfterViolations(sub.v, at)

\* the entities of a mapping section, in the order of its keys
RECURSIVE BuildModels(_)
BuildModels(items) ==
    IF items = <<>> THEN Ok(<<>>)
    ELSE IF ~ModelConfig(Head(items).v).ok THEN ModelConfig(Head(items).v)
    ELSE IF ~BuildModels(Tail(items)).ok THEN BuildModels(Tail(items))
    ELSE Ok(<<Item(Head(items).k, ModelConfig(Head(items).v).v)>>
            \o BuildModels(Tail(items)).v)

RECURSIVE BuildAgents(_, _)
JoinAgents(key, first, rest) ==
    IF ~first.ok THEN first
    ELSE IF ~rest.ok THEN rest
    ELSE Ok(<<Item(key, first.v)>> \o rest.v)

BuildAgents(items, E) ==
    IF items = <<>> THEN Ok(<<>>)
    ELSE JoinAgents(Head(items).k, AgentConfig(Head(items).v, E),
                    BuildAgents(Tail(items), E))

Keys(items) == {items[i].k : i \in 1..Len(items)}

\* the agent's model carries a name that is no key of models
UnknownModel(models, agent) ==
    /\ agent.model.name.t = "str"
    /\ agent.model.name.s # <<>>
    /\ agent.model.name.s \notin Keys(models)

\* a check that looks every name up, the empty one included
validate_cross_references_unscoped(models, agents) ==
    \A i \in 1..Len(agents) :
        agents[i].v.model.name.t = "str" => agents[i].v.model.name.s \in Keys(models)

\* AIConfig.validate_cross_references: an agent whose model carries a name
\* must name a key of models
validate_cross_references(models, agents) ==
    \A i \in 1..Len(agents) :
        (agents[i].v.model.name.t = "str" /\ agents[i].v.model.name.s # <<>>)
            => agents[i].v.model.name.s \in Keys(models)

\* what validate_cross_references raises: the first agent, in the order of
\* the mapping, whose model is unknown
CrossReferenceViolations(models, agents) ==
    IF validate_cross_references(models, agents) THEN {}
    ELSE { Violation(<<<<"agents">>, agents[i].k>>, "unknown model") :
             i \in {j \in 1..Len(agents) :
                      /\ UnknownModel(models, agents[j].v)
                      /\ \A m \in 1..(j - 1) : ~UnknownModel(models, agents[m].v)} }

\* the ValueError of validate_cross_references: the agent the loop stopped
\* at, the name of its model, and the available names (the set that
\* sorted() lists)
CrossReferenceError(models, agents) ==
    IF validate_cross_references(models, agents) THEN None
    ELSE [agent |-> agents[CHOOSE j \in 1..Len(agents) :
                             /\ UnknownModel(models, agents[j].v)
                             /\ \A m \in 1..(j - 1) :
                                    ~UnknownModel(models, agents[m].v)].k,
          model |-> agents[CHOOSE j \in 1..Len(agents) :
                             /\ UnknownModel(models, agents[j].v)
                             /\ \A m \in 1..(j - 1) :
                                    ~UnknownModel(models, agents[m].v)].v.model.name.s,
          available |-> Keys(models)]

\* AIConfig.validate_models
validate_models(v, E) ==
    IF v.t = "map" THEN BuildModels(v.items) ELSE Fail("validation", <<"models">>)

\* AIConfig.validate_agents
validate_agents(v, E) ==
    IF v.t = "map" THEN BuildAgents(v.items, E) ELSE Fail("validation", <<"agents">>)

\* the fields of AIConfig, then validate_cross_references
AIConfigFields(values, models, tools, agents) ==
    IF ~(values.t = "map" /\ HasStr(values, <<"version">>))
    THEN Fail("validation", <<"version">>)
    ELSE IF ~models.ok THEN models
    ELSE IF ~tools.ok THEN tools
    ELSE IF ~agents.ok THEN agents
    ELSE IF ~validate_cross_references(models.v, agents.v)
    THEN Fail("validation", <<"unknown model">>)
    ELSE Ok([cls |-> "AIConfig",
             version |-> Get(values, <<"version">>).s,
             models |-> models.v,
             tools |-> tools.v,
             agents |-> agents.v])

AIConfigValues(sub, E) ==
    IF ~sub.ok THEN Fail("validation", sub.err.name)
    ELSE AIConfigFields(sub.v,
                        validate_models(OrElse(sub.v, <<"models">>, Map(<<>>)), E),
                        ToolsConfig(OrElse(sub.v, <<"tools">>, Map(<<>>))),
                        validate_agents(OrElse(sub.v, <<"agents">>, Map(<<>>)), E))

\* AIConfig: substitute_environment_variables, then the fields
AIConfig(node, E) == AIConfigValues(substitute_env_vars(node, E), E)

\* the field errors of an AIConfig, of the substituted values: pydantic
\* collects the errors of every field, nested entities included
AIConfigFieldViolations(values, E) ==
    IF values.t # "map" THEN {Violation(<<>>, "configuration")}
    ELSE Unless(HasStr(values, <<"version">>), <<<<"version">>>>, "version")
         \cup (IF OrElse(values, <<"models">>, Map(<<>>)).t # "map"
               THEN {Violation(<<<<"models">>>>, "models")}
               ELSE UNION { ModelViolations(it.v, <<<<"models">>, it.k>>) :
                              it \in Range(OrElse(values, <<"models">>, Map(<<>>)).items) })
         \cup Unless(ToolsConfig(OrElse(values, <<"tools">>, Map(<<>>))).ok,
                     <<<<"tools">>>>, "tools")
         \cup (IF OrElse(values, <<"agents">>, Map(<<>>)).t # "map"
               THEN {Violation(<<<<"agents">>>>, "agents")}
               ELSE UNION { AgentViolations(substitute_env_vars(it.v, E),
                                            <<<<"agents">>, it.k>>, E) :
                              it \in Range(OrElse(values, <<"agents">>, Map(<<>>)).items) })

\* the violations the error raised by AIConfig(**values) enumerates: the
\* field errors, or, when there are none, what validate_cross_references
\* raises
ReportedViolations(node, E) ==
    IF ~substitute_env_vars(node, E).ok THEN {Violation(<<>>, "environment")}
    ELSE IF AIConfigFieldViolations(substitute_env_vars(node, E).v, E) # {}
    THEN AIConfigFieldViolations(substitute_env_vars(node, E).v, E)
    ELSE CrossReferenceViolations(
             validate_models(OrElse(substitute_env_vars(node, E).v,
                                    <<"models">>, Map(<<>>)), E).v,
             validate_agents(OrElse(substitute_env_vars(node, E).v,
                                    <<"agents">>, Map(<<>>)), E).v)

\* the message of the error AIConfig(**values) raises for an unknown model,
\* None for every other outcome
RaisedMessage(node, E) ==
    IF ReportedViolations(node, E) = {} THEN None
    ELSE IF AIConfigFieldViolations(substitute_env_vars(node, E).v, E) # {} THEN None
    ELSE CrossReferenceError(
             validate_models(OrElse(substitute_env_vars(node, E).v,
                                    <<"models">>, Map(<<>>)), E).v,
             validate_agents(OrElse(substitute_env_vars(node, E).v,
                                    <<"agents">>, Map(<<>>)), E).v)

\* ------------------------------------------------------------------------
\* Input documents of the loader
\* ------------------------------------------------------------------------

RECURSIVE Dotted(_)
Dotted(segs) ==
    IF Len(segs) = 1 THEN <<segs[1]>>
    ELSE <<segs[1], DOT>> \o Dotted(Tail(segs))

RefToken(segs) == <<REF_OPEN>> \o Dotted(segs) \o <<CLOSE>>

PathModel == <<"models", "m">>
PathProvider == <<"models", "m", "provider">>
PathApiKey == <<"models", "m", "config", "api_key">>
PathAgent == <<"agents", "a">>
PathAgentModel == <<"agents", "a", "model">>
PathPlatform == <<"agents", "a", "platform">>

ProviderPool ==
    { <<"azure_openai">>, EnvToken(<<"X">>), RefToken(PathAgentModel) }

IdPool == { <<"gpt-4">>, EnvToken(<<"X">>) }

ApiKeyPool ==
    { EnvToken(<<"X">>), EnvToken(<<"Y">>), RefToken(PathProvider) }

AgentModelPool ==
    { RefToken(PathModel),
      RefToken(<<"models", "nonexistent-model">>),
      RefToken(<<"models", "m", "provider", "x">>),
      RefToken(PathPlatform),
      RefToken(PathAgentModel),
      RefToken(PathAgent),
      <<"m">> }

PlatformPool ==
    { <<"azure_openai">>,
      RefToken(PathProvider),
      RefToken(PathApiKey),
      RefToken(PathAgentModel),
      <<"on-">> \o RefToken(PathProvider),
      <<"on-">> \o RefToken(PathModel) }

LoadEnvs ==
    { [n \in EnvNames |-> IF n = <<"X">> THEN x ELSE y] :
        x \in {Unset, SetTo(<<"azure_openai">>), SetTo(EnvToken(<<"Y">>)),
               SetTo(EnvToken(<<"X">>))},
        y \in {Unset, SetTo(<<"w">>), SetTo(EnvToken(<<"X">>))} }

ModelNode(provider, id, api_key) ==
    Map(<< Item(<<"provider">>, Str(provider)),
           Item(<<"id">>, Str(id)),
           Item(<<"version">>, Str(<<"1.0">>)),
           Item(<<"config">>, Map(<<Item(<<"api_key">>, Str(api_key))>>)),
           Item(<<"params">>, Map(<<Item(<<"temperature">>, Num(7))>>)) >>)

AgentNode(model, platform) ==
    Map(<< Item(<<"version">>, Str(<<"1.0">>)),
           Item(<<"name">>, Str(<<"a">>)),
           Item(<<"description">>, Str(<<"Test agent">>)),
           Item(<<"model">>, Str(model)),
           Item(<<"platform">>, Str(platform)),
           Item(<<"system_prompt">>,
                Map(<< Item(<<"version">>, Str(<<"1.0">>)),
                       Item(<<"path">>, Str(<<"test", DOT, "md">>)) >>)),
           Item(<<"tools">>, List(<<>>)) >>)

Document(provider, id, api_key, model, platform) ==
    Map(<< Item(<<"version">>, Str(<<"1.0">>)),
           Item(<<"models">>, Map(<<Item(<<"m">>, ModelNode(provider, id, api_key))>>)),
           Item(<<"agents">>, Map(<<Item(<<"a">>, AgentNode(model, platform))>>)),
           Item(<<"tools">>, Map(<<>>)) >>)

\* ------------------------------------------------------------------------
\* ConfigLoader.load_from_dict: environment pass, reference pass, AIConfig
\* ------------------------------------------------------------------------

Init ==
    /\ \E provider \in ProviderPool, id \in IdPool, api_key \in ApiKeyPool,
          model \in AgentModelPool, platform \in PlatformPool :
            doc = Document(provider, id, api_key, model, platform)
    /\ env \in LoadEnvs
    /\ pc = "start"
    /\ cur = None
    /\ prev = None
    /\ err = NoErr
    /\ config = None

\* pass 1: environment substitution over the whole document
LoadEnvPass ==
    /\ pc = "start"
    /\ LET r == substitute_env_vars(doc, env)
       IN  /\ pc' = IF r.ok THEN "env_done" ELSE "failed"
           /\ cur' = r.v
           /\ err' = r.err
    /\ prev' = doc
    /\ UNCHANGED <<doc, env, config>>

\* pass 2: reference resolution over the environment-substituted document
LoadRefPass ==
    /\ pc = "env_done"
    /\ LET r == resolve_references(cur)
       IN  /\ pc' = IF r.ok THEN "resolved" ELSE "failed"
           /\ cur' = r.v
           /\ err' = r.err
    /\ prev' = cur
    /\ UNCHANGED <<doc, env, config>>

\* typed construction of the resolved document
LoadConstruct ==
    /\ pc = "resolved"
    /\ LET r == AIConfig(cur, env)
       IN  /\ pc' = IF r.ok THEN "loaded" ELSE "failed"
           /\ config' = r.v
           /\ err' = r.err
    /\ UNCHANGED <<doc, env, cur, prev>>

Next == LoadEnvPass \/ LoadRefPass \/ LoadConstruct

Spec == Init /\ [][Next]_vars

\* ------------------------------------------------------------------------
\* Configuration facade: AIConfig and AgentConfig queries
\* ------------------------------------------------------------------------

\* the outcome of a call: the value returned, or the exception raised
Ret(v) == [t |-> "ret", v |-> v]
Raised(what) == [t |-> "raise", what |-> what]

\* a value Python can hash, and so use as a dict key
Hashable(key) == key.t \notin {"list", "map"}

\* dict.get(key): the value under key, None when there is none, TypeError
\* when key is unhashable
DictGet(items, key) ==
    IF ~Hashable(key) THEN Raised("TypeError")
    ELSE IF key.t = "str" /\ key.s \in Keys(items)
    THEN Ret(items[CHOOSE i \in 1..Len(items) : items[i].k = key.s].v)
    ELSE Ret(None)

\* AIConfig.get_model
get_model(self, name) == DictGet(self.models, name)

\* AIConfig.get_agent
get_agent(self, name) == DictGet(self.agents, name)

\* get_tool that takes the last segment of any reference as an OpenAPI name
get_tool_by_last_segment(self, tool_ref) ==
    IF tool_ref.t # "str" \/ ~HasLexeme(tool_ref.s, DOT) THEN Ret(None)
    ELSE DictGet(self.tools.openapi,
                 Str(SplitPath(tool_ref.s)[Len(SplitPath(tool_ref.s))]))

\* AIConfig.get_tool
get_tool(self, tool_ref) ==
    IF tool_ref.t # "str" \/ ~HasLexeme(tool_ref.s, DOT) THEN Ret(None)
    ELSE IF /\ Len(SplitPath(tool_ref.s)) = 2
            /\ SplitPath(tool_ref.s)[1] = <<"openapi">>
    THEN IF self.tools.openapi # <<>>
         THEN DictGet(self.tools.openapi, Str(SplitPath(tool_ref.s)[2]))
         ELSE Ret(None)
    ELSE IF /\ Len(SplitPath(tool_ref.s)) = 3
            /\ SplitPath(tool_ref.s)[1] = <<"ai_foundry">>
            /\ SplitPath(tool_ref.s)[2] = <<"tools">>
    THEN IF self.tools.ai_foundry # None /\ self.tools.ai_foundry.tools # <<>>
         THEN DictGet(self.tools.ai_foundry.tools, Str(SplitPath(tool_ref.s)[3]))
         ELSE Ret(None)
    ELSE Ret(None)

\* get_agent_tools without the test for an absent agent
get_agent_tools_unguarded(self, agent_name) ==
    IF get_agent(self, agent_name).t = "raise" THEN get_agent(self, agent_name)
    ELSE IF get_agent(self, agent_name).v = None THEN Raised("AttributeError")
    ELSE Ret(get_agent(self, agent_name).v.tools)

\* AIConfig.get_agent_tools
get_agent_tools(self, agent_name) ==
    IF get_agent(self, agent_name).t = "raise" THEN get_agent(self, agent_name)
    ELSE IF get_agent(self, agent_name).v = None THEN Ret(<<>>)
    ELSE Ret(get_agent(self, agent_name).v.tools)

\* AIConfig.list_models
list_models(self) == Ret([i \in 1..Len(self.models) |-> self.models[i].k])

\* AIConfig.list_agents
list_agents(self) == Ret([i \in 1..Len(self.agents) |-> self.agents[i].k])

\* isinstance(value, ModelConfig)
IsModelConfig(value) == "cls" \in DOMAIN value /\ value.cls = "ModelConfig"

\* AgentConfig.get_resolved_model
get_resolved_model(agent) ==
    IF ~IsModelConfig(agent.model) THEN Raised("ValueError") ELSE Ret(agent.model)

\* AgentConfig.get_model_provider
get_model_provider(agent) ==
    IF get_resolved_model(agent).t = "raise" THEN get_resolved_model(agent)
    ELSE Ret(get_resolved_model(agent).v.provider)

\* AgentConfig.get_model_id
get_model_id(agent) ==
    IF get_resolved_model(agent).t = "raise" THEN get_resolved_model(agent)
    ELSE Ret(get_resolved_model(agent).v.id)

\* AgentConfig.get_model_config
get_model_config(agent) ==
    IF get_resolved_model(agent).t = "raise" THEN get_resolved_model(agent)
    ELSE Ret(get_resolved_model(agent).v.config)

\* a mapping or None that Python takes as false: None, or the empty mapping
Falsy(value) == value = None \/ value = Map(<<>>)

\* get_model_params that hands out whatever the model holds as params
get_model_params_as_held(agent) ==
    IF get_resolved_model(agent).t = "raise" THEN get_resolved_model(agent)
    ELSE Ret(get_resolved_model(agent).v.params)

\* AgentConfig.get_model_params
get_model_params(agent) ==
    IF get_resolved_model(agent).t = "raise" THEN get_resolved_model(agent)
    ELSE IF Falsy(get_resolved_model(agent).v.params) THEN Ret(Map(<<>>))
    ELSE Ret(get_resolved_model(agent).v.params)

\* AgentConfig.get_resolved_tools
get_resolved_tools(agent) == Ret(agent.tools)

IsNamed(tool) == tool.name.t = "str" /\ tool.name.s # <<>>
IsOpenAPI(tool) == tool.cls = "OpenAPIToolConfig"
IsAIFoundry(tool) == tool.cls = "AIFoundryToolConfig"

\* AgentConfig.get_tool_names
get_tool_names(agent) ==
    Ret([i \in 1..Len(SelectSeq(agent.tools, IsNamed)) |->
            SelectSeq(agent.tools, IsNamed)[i].name.s])

\* AgentConfig.get_tool_count
get_tool_count(agent) == Ret(Num(Len(agent.tools)))

\* a Python bool as a value
Bool(b) == [t |-> "bool", b |-> b]

\* AgentConfig.has_tool_type
has_tool_type(agent, tool_type) ==
    IF tool_type = Str(<<"openapi">>)
    THEN Ret(Bool(\E i \in 1..Len(agent.tools) : IsOpenAPI(agent.tools[i])))
    ELSE IF tool_type = Str(<<"ai_foundry">>)
    THEN Ret(Bool(\E i \in 1..Len(agent.tools) : IsAIFoundry(agent.tools[i])))
    ELSE Ret(Bool(FALSE))

\* a filter that hands out every tool as a platform-native one
get_tools_by_type_unfiltered(agent, tool_type) ==
    IF tool_type = Str(<<"openapi">>) THEN Ret(SelectSeq(agent.tools, IsOpenAPI))
    ELSE IF tool_type = Str(<<"ai_foundry">>) THEN Ret(agent.tools)
    ELSE Ret(<<>>)

\* AgentConfig.get_tools_by_type
get_tools_by_type(agent, tool_type) ==
    IF tool_type = Str(<<"openapi">>) THEN Ret(SelectSeq(agent.tools, IsOpenAPI))
    ELSE IF tool_type = Str(<<"ai_foundry">>) THEN Ret(SelectSeq(agent.tools, IsAIFoundry))
    ELSE Ret(<<>>)

\* a query as a value: the method, its argument, and the key of the agent it
\* is sent to (the facade itself when empty)
Query(op, arg, on) == [op |-> op, arg |-> arg, on |-> on]

\* the answer of a configuration to a facade query
Answer(self, q) ==
    CASE q.op = "get_model" -> get_model(self, q.arg)
      [] q.op = "get_agent" -> get_agent(self, q.arg)
      [] q.op = "get_tool" -> get_tool(self, q.arg)
      [] q.op = "get_agent_tools" -> get_agent_tools(self, q.arg)
      [] q.op = "list_models" -> list_models(self)
      [] q.op = "list_agents" -> list_agents(self)

\* the methods of an agent that read its model
ModelAccessors ==
    {"get_resolved_model", "get_model_provider", "get_model_id", "get_model_config",
     "get_model_params"}

\* the agent a query is sent to: the agent of the configuration, or, for a
\* model accessor that comes with a string, that agent with the string as
\* its model (an AgentConfig whose model was never resolved)
Receiver(agent, q) ==
    IF q.op \in ModelAccessors /\ q.arg.t = "str"
    THEN [agent EXCEPT !.model = q.arg]
    ELSE agent

\* the answer of an agent of the configuration to an agent query
AgentAnswer(agent, q) ==
    CASE q.op = "get_resolved_model" -> get_resolved_model(agent)
      [] q.op = "get_model_provider" -> get_model_provider(agent)
      [] q.op = "get_model_id" -> get_model_id(agent)
      [] q.op = "get_model_config" -> get_model_config(agent)
      [] q.op = "get_model_params" -> get_model_params(agent)
      [] q.op = "get_resolved_tools" -> get_resolved_tools(agent)
      [] q.op = "get_tool_names" -> get_tool_names(agent)
      [] q.op = "get_tools_by_type" -> get_tools_by_type(agent, q.arg)
      [] q.op = "has_tool_type" -> has_tool_type(agent, q.arg)
      [] q.op = "get_tool_count" -> get_tool_count(agent)

\* a query that empties the tool list it hands out
after_query_consuming(self) ==
    [self EXCEPT !.agents =
        [i \in 1..Len(self.agents) |->
            Item(self.agents[i].k, [self.agents[i].v EXCEPT !.tools = <<>>])]]

\* the configuration after a query: no method assigns to self, to an agent,
\* to a model or to a tool
after_query(self) == self

\* ------------------------------------------------------------------------
\* Resolved documents: typed construction and queries
\* ------------------------------------------------------------------------

Named(node, name) == Map(node.items \o <<Item(<<"name">>, Str(name))>>)

DeclaredModel == ModelNode(<<"azure_openai">>, <<"gpt-4">>, <<"key">>)

\* the declarations of models.m: valid, and the violations of the
\* validation demo (provider off the allow-list, empty id, both)
BuildModelPool ==
    { DeclaredModel,
      ModelNode(<<"invalid_provider">>, <<"gpt-4">>, <<"key">>),
      ModelNode(<<"azure_openai">>, <<>>, <<"key">>),
      ModelNode(<<"invalid_provider">>, <<>>, <<"key">>),
      Str(<<"not a model">>) }

\* the old inline format of an agent's model: a name and parameters
LegacyModel ==
    Map(<< Item(<<"name">>, Str(<<"m">>)), Item(<<"temperature">>, Num(7)) >>)

\* a Model-shaped section outside models, as a reference to it resolves
ForeignModel == ModelNode(<<"openai">>, <<"other">>, <<"key">>)

\* what the model of an agent is after resolution: the declared model, a
\* model carrying the name of a declared or of an undeclared model, a
\* Model-shaped section outside models, a plain name, the old inline format
BuildAgentModelPool ==
    { DeclaredModel, Named(DeclaredModel, <<"m">>), Named(DeclaredModel, <<"x">>),
      ForeignModel, Str(<<"m">>), LegacyModel }

OpenAPITool(name) ==
    Map(<< Item(<<"name">>, Str(name)),
           Item(<<"schema_path">>, Str(<<"weather", DOT, "json">>)),
           Item(<<"headers">>, Map(<<>>)) >>)

NativeTool(name) ==
    Map(<< Item(<<"name">>, Str(name)),
           Item(<<"description">>, Str(<<"search">>)),
           Item(<<"type">>, Str(<<"bing_grounding">>)),
           Item(<<"connection_ids">>, List(<<Str(<<"c1">>)>>)) >>)

\* a mapping with both discriminating keys and the fields of a native tool
TypedSchemaTool ==
    Map(NativeTool(<<"both">>).items
            \o <<Item(<<"schema_path">>, Str(<<"weather", DOT, "json">>))>>)

\* a mapping with schema_path only
BareSchemaTool == Map(<<Item(<<"schema_path">>, Str(<<"weather", DOT, "json">>))>>)

\* a mapping with both discriminating keys and nothing else
BareTypedSchemaTool ==
    Map(<< Item(<<"schema_path">>, Str(<<"weather", DOT, "json">>)),
           Item(<<"type">>, Str(<<"bing_grounding">>)) >>)

\* the tools of an agent after resolution
BuildToolsPool ==
    { <<>>,
      <<OpenAPITool(<<"weather">>)>>,
      <<NativeTool(<<"bing">>), BareSchemaTool>>,
      <<TypedSchemaTool, OpenAPITool(<<"weather">>)>>,
      <<BareTypedSchemaTool>>,
      <<NativeTool(<<"bing">>), Str(<<"openapi", DOT, "weather">>)>>,
      <<Str(<<"weather">>)>> }

\* the tools section: empty, or one tool of each kind
BuildSectionPool ==
    { Map(<<>>),
      Map(<< Item(<<"openapi">>, Map(<<Item(<<"weather">>, OpenAPITool(<<"weather">>))>>)),
             Item(<<"ai_foundry">>,
                  Map(<< Item(<<"default_project_endpoint">>, Str(<<"endpoint">>)),
                         Item(<<"tools">>,
                              Map(<<Item(<<"bing">>, NativeTool(<<"bing">>))>>)) >>)) >>) }

AgentOf(name, model, tools) ==
    Map(<< Item(<<"version">>, Str(<<"1.0">>)),
           Item(<<"name">>, Str(name)),
           Item(<<"description">>, Str(<<"Test agent">>)),
           Item(<<"model">>, model),
           Item(<<"platform">>, Str(<<"azure_openai">>)),
           Item(<<"system_prompt">>,
                Map(<< Item(<<"version">>, Str(<<"1.0">>)),
                       Item(<<"path">>, Str(<<"test", DOT, "md">>)) >>)),
           Item(<<"tools">>, List(tools)) >>)

\* a Model that declares no params
ParamlessModel ==
    Map(<< Item(<<"provider">>, Str(<<"azure_openai">>)),
           Item(<<"id">>, Str(<<"gpt-4">>)),
           Item(<<"version">>, Str(<<"1.0">>)),
           Item(<<"config">>, Map(<<Item(<<"api_key">>, Str(<<"key">>))>>)) >>)

\* the model of the second agent
SecondAgentModelPool ==
    { DeclaredModel, ParamlessModel, Named(DeclaredModel, <<"y">>), Str(<<"m">>),
      Named(DeclaredModel, <<>>) }

ResolvedDocument(model, section, first, tools, second) ==
    Map(<< Item(<<"version">>, Str(<<"1.0">>)),
           Item(<<"models">>, Map(<<Item(<<"m">>, model)>>)),
           Item(<<"tools">>, section),
           Item(<<"agents">>,
                Map(<< Item(<<"a">>, AgentOf(<<"a">>, first, tools)),
                       Item(<<"b">>, AgentOf(<<"b">>, second, <<>>)) >>)) >>)

NoEnv == [n \in EnvNames |-> Unset]

\* the arguments of the queries by name: a key, a name that is no key, and
\* values that are no string
NameArgs == { Str(<<"m">>), Str(<<"a">>), Str(<<"b">>), Str(<<"zz">>), Num(7), None,
              List(<<>>) }

\* the arguments of get_tool
ToolRefArgs ==
    { Str(<<"openapi", DOT, "weather">>),
      Str(<<"openapi", DOT, "missing">>),
      Str(<<"ai_foundry", DOT, "tools", DOT, "bing">>),
      Str(<<"ai_foundry", DOT, "tools", DOT, "missing">>),
      Str(<<"ai_foundry", DOT, "bing">>),
      Str(<<"ai_foundry", DOT, "extra", DOT, "bing">>),
      Str(<<"openapi", DOT, "tools", DOT, "weather">>),
      Str(<<"other", DOT, "weather">>),
      Str(<<"openapi", DOT, "weather", DOT, "x", DOT, "y">>),
      Str(<<"weather">>),
      Num(7), None, List(<<>>) }

ToolTypeArgs == { Str(<<"openapi">>), Str(<<"ai_foundry">>), Str(<<"other">>) }

InitBuild ==
    /\ \E model \in BuildModelPool, section \in BuildSectionPool,
          first \in BuildAgentModelPool, tools \in BuildToolsPool,
          second \in SecondAgentModelPool :
            doc = ResolvedDocument(model, section, first, tools, second)
    /\ env = NoEnv
    /\ pc = "raw"
    /\ cur = None
    /\ prev = None
    /\ err = NoErr
    /\ config = None

\* AIConfig(**document): the configuration, or the validation error and the
\* violations it enumerates
Construct ==
    /\ pc = "raw"
    /\ pc' = IF AIConfig(doc, env).ok THEN "built" ELSE "invalid"
    /\ config' = AIConfig(doc, env).v
    /\ err' = AIConfig(doc, env).err
    /\ cur' = [t |-> "violations", set |-> ReportedViolations(doc, env),
                message |-> RaisedMessage(doc, env)]
    /\ UNCHANGED <<doc, env, prev>>

\* AIConfig.get_model(name): prev is the query, cur its outcome
GetModel ==
    /\ pc = "built"
    /\ \E name \in NameArgs :
          /\ prev' = Query("get_model", name, <<>>)
          /\ cur' = get_model(config, name)
    /\ config' = after_query(config)
    /\ UNCHANGED <<doc, env, pc, err>>

\* AIConfig.get_agent(name): prev is the query, cur its outcome
GetAgent ==
    /\ pc = "built"
    /\ \E name \in NameArgs :
          /\ prev' = Query("get_agent", name, <<>>)
          /\ cur' = get_agent(config, name)
    /\ config' = after_query(config)
    /\ UNCHANGED <<doc, env, pc, err>>

\* AIConfig.get_tool(tool_ref): prev is the query, cur its outcome
GetTool ==
    /\ pc = "built"
    /\ \E tool_ref \in ToolRefArgs :
          /\ prev' = Query("get_tool", tool_ref, <<>>)
          /\ cur' = get_tool(config, tool_ref)
    /\ config' = after_query(config)
    /\ UNCHANGED <<doc, env, pc, err>>

\* AIConfig.get_agent_tools(agent_name): prev is the query, cur its outcome
GetAgentTools ==
    /\ pc = "built"
    /\ \E agent_name \in NameArgs :
          /\ prev' = Query("get_agent_tools", agent_name, <<>>)
          /\ cur' = get_agent_tools(config, agent_name)
    /\ config' = after_query(config)
    /\ UNCHANGED <<doc, env, pc, err>>

\* AIConfig.list_models()
ListModels ==
    /\ pc = "built"
    /\ prev' = Query("list_models", None, <<>>)
    /\ cur' = list_models(config)
    /\ config' = after_query(config)
    /\ UNCHANGED <<doc, env, pc, err>>

\* AIConfig.list_agents()
ListAgents ==
    /\ pc = "built"
    /\ prev' = Query("list_agents", None, <<>>)
    /\ cur' = list_agents(config)
    /\ config' = after_query(config)
    /\ UNCHANGED <<doc, env, pc, err>>

\* the queries of one agent of the configuration
AgentQueries(agent) ==
    {Query(op, None, agent) :
        op \in {"get_resolved_tools", "get_tool_names", "get_tool_count"}}
        \cup {Query(op, held, agent) : op \in ModelAccessors, held \in {None, Str(<<"m">>)}}
        \cup {Query(op, tool_type, agent) :
                op \in {"get_tools_by_type", "has_tool_type"}, tool_type \in ToolTypeArgs}

\* a query of an agent of the configuration
AgentQuery ==
    /\ pc = "built"
    /\ \E i \in 1..Len(config.agents) :
          \E q \in AgentQueries(config.agents[i].k) :
              /\ prev' = q
              /\ cur' = AgentAnswer(Receiver(config.agents[i].v, q), q)
    /\ config' = after_query(config)
    /\ UNCHANGED <<doc, env, pc, err>>

NextBuild ==
    \/ Construct
    \/ GetModel
    \/ GetAgent
    \/ GetTool
    \/ GetAgentTools
    \/ ListModels
    \/ ListAgents
    \/ AgentQuery

SpecBuild == InitBuild /\ [][NextBuild]_vars

\* ------------------------------------------------------------------------
\* System prompts: SystemPromptConfig, and the agent and configuration
\* around it
\* ------------------------------------------------------------------------

PathAlphabet == {"test", DOT, "md", "txt", "MD"}

\* the paths of a system prompt: every text of the alphabet up to the bound,
\* and paths whose name or extension comes from the environment
PromptPaths ==
    UNION {[1..n -> PathAlphabet] : n \in 0..MaxPathLen}
        \cup { EnvToken(<<"X">>),
               <<"test", DOT>> \o EnvToken(<<"X">>),
               EnvToken(<<"X">>) \o <<DOT, "txt">> }

PromptEnvs ==
    { [n \in EnvNames |-> IF n = <<"X">> THEN x ELSE Unset] :
        x \in {Unset, SetTo(<<"md">>), SetTo(<<"MD">>), SetTo(<<"prompt", DOT, "md">>)} }

PromptNode(path) ==
    Map(<< Item(<<"version">>, Str(<<"1.0">>)), Item(<<"path">>, Str(path)) >>)

\* a valid agent but for the path of its system prompt
PromptAgent(path) ==
    Map(<< Item(<<"version">>, Str(<<"1.0">>)),
           Item(<<"name">>, Str(<<"a">>)),
           Item(<<"description">>, Str(<<"Test agent">>)),
           Item(<<"model">>, DeclaredModel),
           Item(<<"platform">>, Str(<<"azure_openai">>)),
           Item(<<"system_prompt">>, PromptNode(path)),
           Item(<<"tools">>, List(<<>>)) >>)

PromptDocument(path) ==
    Map(<< Item(<<"version">>, Str(<<"1.0">>)),
           Item(<<"models">>, Map(<<Item(<<"m">>, DeclaredModel)>>)),
           Item(<<"agents">>, Map(<<Item(<<"a">>, PromptAgent(path))>>)),
           Item(<<"tools">>, Map(<<>>)) >>)

InitPrompt ==
    /\ \E path \in PromptPaths : doc = PromptDocument(path)
    /\ env \in PromptEnvs
    /\ pc = "start"
    /\ cur = None
    /\ prev = None
    /\ err = NoErr
    /\ config = None

\* SystemPromptConfig(**system_prompt): cur is the outcome
BuildPrompt ==
    /\ pc = "start"
    /\ pc' = "prompt"
    /\ cur' = SystemPromptConfig(
                  Get(Get(Get(doc, <<"agents">>), <<"a">>), <<"system_prompt">>), env)
    /\ UNCHANGED <<doc, env, prev, err, config>>

\* AgentConfig(**agent): prev is the outcome
BuildAgent ==
    /\ pc = "prompt"
    /\ pc' = "agent"
    /\ prev' = AgentConfig(Get(Get(doc, <<"agents">>), <<"a">>), env)
    /\ UNCHANGED <<doc, env, cur, err, config>>

\* AIConfig(**document): config and err are the outcome
BuildConfig ==
    /\ pc = "agent"
    /\ pc' = IF AIConfig(doc, env).ok THEN "built" ELSE "invalid"
    /\ config' = AIConfig(doc, env).v
    /\ err' = AIConfig(doc, env).err
    /\ UNCHANGED <<doc, env, cur, prev>>

NextPrompt == BuildPrompt \/ BuildAgent \/ BuildConfig

SpecPrompt == InitPrompt /\ [][NextPrompt]_vars

\* ------------------------------------------------------------------------
\* Vocabulary of the claims
\* ------------------------------------------------------------------------

\* the node at a path of single-lexeme keys (None when there is none)
At(root, p) == LookupPath(root, SplitPath(Dotted(p))).v

SlotPaths ==
    { PathModel, PathProvider, <<"models", "m", "id">>, PathApiKey,
      PathAgent, PathAgentModel, PathPlatform }

\* a ${env:NAME} token of a string: an opener, a non-empty run without "}",
\* and a "}"
IsEnvToken(s, i, j) ==
    /\ i < j - 1
    /\ s[i] = ENV_OPEN
    /\ s[j] = CLOSE
    /\ \A m \in (i + 1)..(j - 1) : s[m] # CLOSE

EnvTokenNames(s) ==
    { SubSeq(s, i + 1, j - 1) : <<i, j>> \in
        { ij \in (1..Len(s)) \X (1..Len(s)) : IsEnvToken(s, ij[1], ij[2]) } }

\* the environment sets the variable
IsSet(E, n) == n \in DOMAIN E /\ E[n].set

\* the names of the tokens of a tree that the environment does not set
UnsetNames(value, E) ==
    { n \in UNION {EnvTokenNames(s) : s \in StringsOf(value)} : ~IsSet(E, n) }

\* a ${ref:path} token of a string
IsRefToken(s, i, j) ==
    /\ i < j - 1
    /\ s[i] = REF_OPEN
    /\ s[j] = CLOSE
    /\ \A m \in (i + 1)..(j - 1) : s[m] # CLOSE

RefTokenPaths(s) ==
    { SubSeq(s, i + 1, j - 1) : <<i, j>> \in
        { ij \in (1..Len(s)) \X (1..Len(s)) : IsRefToken(s, ij[1], ij[2]) } }

RefPathsOf(value) == UNION {RefTokenPaths(s) : s \in StringsOf(value)}

HasPlaceholder(s) == HasLexeme(s, ENV_OPEN) \/ HasLexeme(s, REF_OPEN)

\* every string of a loaded configuration
ModelStrings(m) ==
    {m.provider, m.id, m.version} \cup StringsOf(m.config) \cup StringsOf(m.params)
        \cup StringsOf(m.name)

AgentStrings(a) ==
    {a.version, a.name, a.description, a.platform, a.system_prompt.version,
     a.system_prompt.path} \cup ModelStrings(a.model)

ConfigStrings(c) ==
    {c.version}
        \cup UNION {ModelStrings(c.models[i].v) : i \in 1..Len(c.models)}
        \cup UNION {AgentStrings(c.agents[i].v) : i \in 1..Len(c.agents)}

\* the reference pass has run (prev is then the environment-substituted
\* document)
RefPassRan ==
    \/ pc \in {"resolved", "loaded"}
    \/ pc = "failed" /\ err.kind # "env"

RefErrors == {"circular", "notfound", "recursion", "embedded"}

\* the path inside a string that is one whole reference (<<>> otherwise)
WholeRefPath(found) ==
    IF found.found /\ found.v.t = "str" /\ IsWholeRef(found.v.s)
    THEN SubSeq(found.v.s, 2, Len(found.v.s) - 1)
    ELSE <<>>

\* the dotted path the node at d refers to when it is one whole reference
RefersTo(root, d) == WholeRefPath(LookupPath(root, SplitPath(d)))

\* the path reached from d after n whole references (<<>> when the chain
\* has ended before)
RECURSIVE Follow(_, _, _)
Follow(root, d, n) ==
    IF n = 0 \/ d = <<>> THEN d ELSE Follow(root, RefersTo(root, d), n - 1)

DottedSlots == {Dotted(p) : p \in SlotPaths}

\* d lies on a cycle of whole references: A -> B -> ... -> A
OnRefCycle(root, d) ==
    \E n \in 1..Cardinality(SlotPaths) : Follow(root, d, n) = d

\* the chain of whole references that starts at d never ends: it runs into
\* a cycle (there are fewer referring nodes than SlotPaths)
ReachesRefCycle(root, d) == Follow(root, d, Cardinality(SlotPaths)) # <<>>

Untraversable(root, d) == ~LookupPath(root, SplitPath(d)).found

Finished == pc \in {"loaded", "failed"}

\* the pass the loader is about to make returns, with a value or an error
PassReturns ==
    CASE pc = "start" -> substitute_env_vars(doc, env).ok \in BOOLEAN
      [] pc = "env_done" -> resolve_references(cur).ok \in BOOLEAN
      [] pc = "resolved" -> AIConfig(cur, env).ok \in BOOLEAN
      [] OTHER -> FALSE

\* the number of passes the loader still has to make
StepsLeft(p) ==
    CASE p = "start" -> 3
      [] p = "env_done" -> 2
      [] p = "resolved" -> 1
      [] OTHER -> 0

\* ------------------------------------------------------------------------
\* Claims
\* ------------------------------------------------------------------------

\* C1: whenever the load succeeds, no string value of the loaded
\* Configuration, at any depth, contains a ${env: or ${ref: placeholder
\* token, values inserted from the environment included.
C1_FixedPoint ==
    pc = "loaded" => \A s \in ConfigStrings(config) : ~HasPlaceholder(s)

\* C2: when the value at path A is ${ref:B} and the value at B is ${ref:A}
\* (or A refers to itself, or a longer chain of references returns to a path
\* in progress), resolving a reference that reaches A or B fails with a
\* CircularReference error, and the load returns no value.
C2_CycleRejection ==
    RefPassRan =>
        \A d \in DottedSlots :
            ReachesRefCycle(prev, d) =>
                /\ pc = "failed"
                /\ err.kind \in RefErrors
                /\ resolve_path(d, prev, {}, 0).err.kind = "circular"
                /\ OnRefCycle(prev, d) =>
                       resolve_path(d, prev, {}, 0) = Fail("circular", d)

C2_Witness ==
    /\ pc = "failed"
    /\ err.kind = "circular"
    /\ At(prev, PathAgentModel) = Str(RefToken(PathPlatform))
    /\ At(prev, PathPlatform) = Str(RefToken(PathAgentModel))

\* C3: the pipeline (environment pass, reference pass, construction) always
\* finishes, with a configuration or with an error: every pass it has still
\* to make returns, every step leaves fewer passes to make, and a reference
\* that leads back to itself ends in a CircularReference error, never in the
\* interpreter running out of stack.
C3_Termination ==
    /\ [](err.kind # "recursion")
    /\ [](Finished \/ PassReturns)
    /\ [][StepsLeft(pc') < StepsLeft(pc)]_vars

C3_Witness ==
    /\ pc = "failed"
    /\ err.kind = "circular"
    /\ At(prev, PathAgentModel) = Str(RefToken(PathAgent))

\* C4: a ${ref:path} whose path cannot be traversed in the root document (a
\* key is absent, or the node reached is not a mapping) makes the load fail;
\* resolving it gives a ReferenceNotFound error that names the path, as for
\* an agent whose model is ${ref:models.nonexistent-model}.
C4_MissingReference ==
    RefPassRan =>
        /\ \A d \in RefPathsOf(prev) :
              Untraversable(prev, d) =>
                  /\ pc = "failed"
                  /\ err.kind \in RefErrors
                  /\ resolve_path(d, prev, {}, 0) = Fail("notfound", d)
        /\ (pc = "failed" /\ err.kind = "notfound") =>
              err.name \in RefPathsOf(prev) /\ Untraversable(prev, err.name)
        /\ At(prev, PathAgentModel)
                = Str(RefToken(<<"models", "nonexistent-model">>)) =>
              err = [kind |-> "notfound",
                     name |-> Dotted(<<"models", "nonexistent-model">>)]

C4_Witness ==
    /\ pc = "failed"
    /\ err = [kind |-> "notfound", name |-> Dotted(<<"models", "m", "provider", "x">>)]
    /\ At(prev, PathProvider).t = "str"

\* C6: when the value at path A is or contains ${ref:B}, a site that refers
\* to A receives the resolved value of A, in which ${ref:B} is replaced by
\* the value of B, for chains of any length; it never receives a value that
\* still contains the inner reference.
C6_TransitiveResolution ==
    pc \in {"resolved", "loaded"} =>
        \A site \in DottedSlots :
            RefersTo(prev, site) # <<>> =>
                LET a == RefersTo(prev, site)
                    received == LookupPath(cur, SplitPath(site)).v
                IN  /\ LookupPath(cur, SplitPath(a)).found
                    /\ received = LookupPath(cur, SplitPath(a)).v
                    /\ RefPathsOf(received)
                         \cap RefPathsOf(LookupPath(prev, SplitPath(a)).v) = {}

C6_Witness ==
    /\ pc = "resolved"
    /\ At(prev, PathAgentModel) = Str(RefToken(PathPlatform))
    /\ At(prev, PathPlatform) = Str(RefToken(PathApiKey))
    /\ At(prev, PathApiKey) = Str(RefToken(PathProvider))
    /\ At(cur, PathAgentModel) = Str(<<"azure_openai">>)

\* the first ${env:NAME} token of a string, as <<start, end>>
FirstEnvToken(s) ==
    CHOOSE ij \in (1..Len(s)) \X (1..Len(s)) :
        /\ IsEnvToken(s, ij[1], ij[2])
        /\ \A kl \in (1..Len(s)) \X (1..Len(s)) :
              IsEnvToken(s, kl[1], kl[2]) => ij[1] <= kl[1]

\* s with every ${env:NAME} occurrence replaced by E[NAME], everything else
\* unchanged and in order
RECURSIVE ExpectedText(_, _)
ExpectedText(s, E) ==
    IF EnvTokenNames(s) = {} THEN s
    ELSE SubSeq(s, 1, FirstEnvToken(s)[1] - 1)
            \o E[SubSeq(s, FirstEnvToken(s)[1] + 1, FirstEnvToken(s)[2] - 1)].val
            \o ExpectedText(SubSeq(s, FirstEnvToken(s)[2] + 1, Len(s)), E)

FirstString(tree) == tree.items[1].v.s
SecondString(tree) == tree.items[2].v.items[1].s

\* C5: when a value tree contains a ${env:NAME} token whose NAME is not
\* set, substitute_env_vars raises an error that names an unset NAME and
\* returns no result at all, wherever the token sits and however many other
\* tokens are resolvable.
C5_MissingEnvironment ==
    (pc # "start" /\ UnsetNames(prev, env) # {}) =>
        /\ pc \in {"raised", "raised_again"}
        /\ cur = None
        /\ err.kind = "env"
        /\ err.name \in UnsetNames(prev, env)

C5_Witness ==
    /\ pc = "raised"
    /\ err = [kind |-> "env", name |-> <<"Y">>]
    /\ env[<<"X">>].set
    /\ FirstString(doc) = EnvToken(<<"X">>)
    /\ SecondString(doc) = EnvToken(<<"X">>) \o EnvToken(<<"Y">>)

\* C8: when every variable named in a string is set, substitute_env_vars
\* returns the string with every ${env:NAME} occurrence replaced by E[NAME]
\* and all other text unchanged and in order; the result is a string, as
\* "prefix-${env:X}-suffix" with X=val gives "prefix-val-suffix".
C8_EnvironmentSubstitution ==
    (pc # "start" /\ UnsetNames(prev, env) = {}) =>
        /\ pc \in {"once", "twice"}
        /\ cur = SubstTree(ExpectedText(FirstString(prev), env),
                           ExpectedText(SecondString(prev), env))

C8_Witness ==
    /\ pc = "once"
    /\ SecondString(doc) = <<"prefix-">> \o EnvToken(<<"X">>) \o <<"-suffix">>
    /\ SecondString(cur) = <<"prefix-", "val", "-suffix">>
    /\ FirstString(doc) = <<"Y">> \o EnvToken(<<"X">>)
    /\ FirstString(cur) = <<"Y", "val">>

\* C10: applying substitute_env_vars to the result of a successful
\* application succeeds and returns an equal tree.
C10_Idempotence ==
    pc \in {"twice", "raised_again"} => (pc = "twice" /\ cur = prev)

\* C7: a string that is exactly one ${ref:path} token is replaced by the
\* value at path with its type kept, so that an agent whose model is
\* ${ref:models.m} loads with a ModelConfig whose provider, id and params
\* equal those of models.m, and a field set to ${ref:models.m.provider}
\* equals that scalar.
C7_WholeValueReference ==
    /\ (pc \in {"resolved", "loaded"}
            /\ At(doc, PathAgentModel) = Str(RefToken(PathModel))) =>
          At(cur, PathAgentModel) = At(cur, PathModel)
    /\ (pc = "loaded" /\ At(doc, PathAgentModel) = Str(RefToken(PathModel))) =>
          /\ config.agents[1].v.model.provider = config.models[1].v.provider
          /\ config.agents[1].v.model.id = config.models[1].v.id
          /\ config.agents[1].v.model.params = config.models[1].v.params
    /\ (pc = "loaded" /\ At(doc, PathPlatform) = Str(RefToken(PathProvider))) =>
          config.agents[1].v.platform = config.models[1].v.provider

\* C9: the environment pass comes before the reference pass: when the
\* agent's model is ${ref:models.m} and models.m.config.api_key is ${env:N}
\* with N = v, the loaded agent's model config has api_key = v.
C9_PassOrdering ==
    \A n \in EnvNames :
        (/\ pc = "loaded"
         /\ At(doc, PathAgentModel) = Str(RefToken(PathModel))
         /\ At(doc, PathApiKey) = Str(EnvToken(n))) =>
            /\ env[n].set
            /\ Get(config.agents[1].v.model.config, <<"api_key">>) = Str(env[n].val)

\* the keys of a mapping node of the document
NodeKeys(node) == IF node.t = "map" THEN Keys(node.items) ELSE {}

\* C11: the load either returns a Configuration that holds every model and
\* agent of the input document, each validated (a ModelConfig as every
\* agent's model) and fully resolved (no placeholder left in any string), or
\* it raises and returns no Configuration at all.
C11_AllOrNothing ==
    /\ pc # "loaded" => config = None
    /\ pc = "loaded" =>
          /\ config.cls = "AIConfig"
          /\ Keys(config.models) = NodeKeys(At(doc, <<"models">>))
          /\ Keys(config.agents) = NodeKeys(At(doc, <<"agents">>))
          /\ \A i \in 1..Len(config.agents) :
                config.agents[i].v.model.cls = "ModelConfig"
          /\ \A s \in ConfigStrings(config) : ~HasPlaceholder(s)

\* ------------------------------------------------------------------------
\* Claims about typed construction
\* ------------------------------------------------------------------------

\* the configuration the document constructs, when it constructs one
Constructed == AIConfig(doc, env).v

\* the agents of a document whose model carries a name that is no key of the
\* document's models
UnknownModelNames(values) ==
    { Violation(<<<<"agents">>, it.k>>, "unknown model") :
        it \in { x \in Range(Get(values, <<"agents">>).items) :
                   /\ Get(x.v, <<"model">>).t = "map"
                   /\ HasStr(Get(x.v, <<"model">>), <<"name">>)
                   /\ Get(Get(x.v, <<"model">>), <<"name">>).s # <<>>
                   /\ Get(Get(x.v, <<"model">>), <<"name">>).s
                          \notin Keys(Get(values, <<"models">>).items) } }

\* every violation of a document: the field-level ones and the cross-entity
\* ones
AllViolations(values, E) ==
    AIConfigFieldViolations(values, E) \cup UnknownModelNames(values)

\* C12 (validation aggregation): when a document has several independent
\* violations, field-level or cross-entity, the one validation error raised
\* enumerates all of them, not only the first.
C12_ValidationAggregation ==
    pc = "invalid" => AllViolations(doc, env) \subseteq cur.set

\* the model of an agent is a declared model: it carries the key of an entry
\* of models, or it is the entity of an entry
Declared(models, model) ==
    \E j \in 1..Len(models) :
        model.name = Str(models[j].k) \/ model = models[j].v

\* C13 (cross-entity invariant): in every constructed configuration the
\* model of each agent corresponds to a key of models; a document whose
\* agent model resolved to a Model-shaped section that is no declared model
\* is rejected.
C13_CrossEntityInvariant ==
    pc = "built" =>
        \A i \in 1..Len(config.agents) :
            Declared(config.models, config.agents[i].v.model)

\* the agents of a document whose model is a string
StringModelAgents(values) ==
    { it \in Range(Get(values, <<"agents">>).items) : Get(it.v, <<"model">>).t = "str" }

NotResolved(key) ==
    Violation(<<<<"agents">>, key, <<"model">>>>, "model reference was not resolved")

InputTools(values, key) ==
    OrElse(Get(Get(values, <<"agents">>), key), <<"tools">>, List(<<>>)).items

ToolClasses == {"OpenAPIToolConfig", "AIFoundryToolConfig"}

\* the entity is the tool the mapping describes
ToolOf(entity, node) ==
    /\ node.t = "map"
    /\ entity.name = OrElse(node, <<"name">>, None)
    /\ entity.cls = "OpenAPIToolConfig"
          => entity.schema_path = Get(node, <<"schema_path">>).s
    /\ entity.cls = "AIFoundryToolConfig"
          => entity.type = Get(node, <<"type">>).s

\* C15 (agent tools are resolved): the tools of every agent of a constructed
\* configuration are OpenAPIToolConfig or AIFoundryToolConfig entities, as
\* many as the input list has elements and in its order; a document in which
\* an element of an agent's tools is still a string never constructs.
C15_AgentToolsResolved ==
    /\ pc = "built" =>
          \A i \in 1..Len(config.agents) :
              /\ Len(config.agents[i].v.tools) = Len(InputTools(doc, config.agents[i].k))
              /\ \A j \in 1..Len(config.agents[i].v.tools) :
                    /\ config.agents[i].v.tools[j].cls \in ToolClasses
                    /\ ToolOf(config.agents[i].v.tools[j],
                              InputTools(doc, config.agents[i].k)[j])
    /\ pc # "raw" =>
          \A it \in Range(Get(doc, <<"agents">>).items) :
              (\E j \in 1..Len(InputTools(doc, it.k)) :
                    InputTools(doc, it.k)[j].t = "str")
                  => pc = "invalid" /\ config = None

\* an agent constructed with a native tool followed by an OpenAPI tool
C15_Witness ==
    /\ pc = "built"
    /\ InputTools(doc, <<"a">>) = <<NativeTool(<<"bing">>), BareSchemaTool>>
    /\ config.agents[1].v.tools[1].cls = "AIFoundryToolConfig"
    /\ config.agents[1].v.tools[2].cls = "OpenAPIToolConfig"

\* an agent whose tools keep a string after resolution is refused
C15_StringWitness ==
    /\ pc = "invalid"
    /\ At(doc, <<"agents", "a">>) = AgentOf(<<"a">>, DeclaredModel,
           <<NativeTool(<<"bing">>), Str(<<"openapi", DOT, "weather">>)>>)
    /\ At(doc, <<"agents", "b">>) = AgentOf(<<"b">>, DeclaredModel, <<>>)
    /\ At(doc, <<"models", "m">>) = DeclaredModel

\* the discriminator of a tool mapping: schema_path present and no type
LooksOpenAPI(node) == Has(node, <<"schema_path">>) /\ ~Has(node, <<"type">>)

Asked(op) == pc = "built" /\ prev # None /\ prev.on = <<>> /\ prev.op = op

\* the entity under a key of a mapping of entities
EntryOf(items, key) == items[CHOOSE i \in 1..Len(items) : items[i].k = key].v

\* the segments of a reference string
Segments(ref) == SplitPath(ref.s)

\* a two-segment reference to a key of tools.openapi
NamesOpenAPI(self, ref) ==
    /\ ref.t = "str"
    /\ Len(Segments(ref)) = 2
    /\ Segments(ref)[1] = <<"openapi">>
    /\ Segments(ref)[2] \in Keys(self.tools.openapi)

\* a three-segment reference to a key of tools.ai_foundry.tools
NamesAIFoundry(self, ref) ==
    /\ ref.t = "str"
    /\ Len(Segments(ref)) = 3
    /\ Segments(ref)[1] = <<"ai_foundry">>
    /\ Segments(ref)[2] = <<"tools">>
    /\ self.tools.ai_foundry # None
    /\ Segments(ref)[3] \in Keys(self.tools.ai_foundry.tools)

\* C17 (facade get_tool): "openapi.N" returns tools.openapi[N] and
\* "ai_foundry.tools.N" returns tools.ai_foundry.tools[N]; every other
\* argument (no string, no dot, another number of segments, an unknown
\* category, a middle segment other than "tools", an unknown name) returns
\* None, and no argument raises.
C17_GetTool ==
    Asked("get_tool") =>
        /\ cur.t = "ret"
        /\ NamesOpenAPI(config, prev.arg)
              => cur.v = EntryOf(config.tools.openapi, Segments(prev.arg)[2])
        /\ NamesAIFoundry(config, prev.arg)
              => cur.v = EntryOf(config.tools.ai_foundry.tools, Segments(prev.arg)[3])
        /\ ~NamesOpenAPI(config, prev.arg) /\ ~NamesAIFoundry(config, prev.arg)
              => cur.v = None

\* a native tool found by its three-segment reference
C17_Witness ==
    /\ Asked("get_tool")
    /\ prev.arg = Str(<<"ai_foundry", DOT, "tools", DOT, "bing">>)
    /\ cur.t = "ret"
    /\ cur.v # None
    /\ cur.v.cls = "AIFoundryToolConfig"

\* name in names, of a Python list of strings
InList(name, names) == name.t = "str" /\ name.s \in Range(names)

\* what the facade promises of the outcome of a query: it returns; a model
\* or agent is returned exactly for the names the listing holds and is the
\* entry of that name, None otherwise; the tools of an unknown agent are the
\* empty list; the listings hold the keys
Total(self, q, outcome) ==
    /\ outcome.t = "ret"
    /\ q.op = "get_model" =>
          /\ outcome.v # None <=> InList(q.arg, list_models(self).v)
          /\ outcome.v # None => outcome.v = EntryOf(self.models, q.arg.s)
    /\ q.op = "get_agent" =>
          /\ outcome.v # None <=> InList(q.arg, list_agents(self).v)
          /\ outcome.v # None => outcome.v = EntryOf(self.agents, q.arg.s)
    /\ q.op = "get_agent_tools" =>
          outcome.v = IF InList(q.arg, list_agents(self).v)
                      THEN EntryOf(self.agents, q.arg.s).tools
                      ELSE <<>>
    /\ q.op = "list_models" =>
          Range(outcome.v) = Keys(self.models) /\ Len(outcome.v) = Len(self.models)
    /\ q.op = "list_agents" =>
          Range(outcome.v) = Keys(self.agents) /\ Len(outcome.v) = Len(self.agents)

\* the last query was a call of a facade method
AskedFacade == pc = "built" /\ prev # None /\ prev.on = <<>>

\* C18 (facade totality), as amended: on a constructed configuration
\* get_model, get_agent, get_tool, get_agent_tools, list_models and
\* list_agents never raise for any hashable argument, strings and None
\* included; an absent model or agent yields None, an unknown agent name the
\* empty tool list, and get_model(n) (get_agent(n)) is not None exactly when
\* n is in list_models() (list_agents()).
C18_FacadeTotality ==
    AskedFacade /\ Hashable(prev.arg) => Total(config, prev, cur)

\* C18 as stated, for any argument: an unhashable name (a list) makes
\* get_model, get_agent and get_agent_tools raise TypeError.
C18_AnyArgument ==
    AskedFacade => Total(config, prev, cur)

\* the tools of an unknown agent name are the empty list
C18_Witness ==
    /\ Asked("get_agent_tools")
    /\ prev.arg = Str(<<"zz">>)
    /\ Keys(config.agents) = {<<"a">>, <<"b">>}
    /\ cur = Ret(<<>>)

\* the outcome of a query on the configuration as construction returned it
FirstAnswer(q) ==
    IF q.on = <<>> THEN Answer(Constructed, q)
    ELSE AgentAnswer(Receiver(EntryOf(Constructed.agents, q.on), q), q)

InvalidModelAgents(values) ==
    { it \in Range(Get(values, <<"agents">>).items) :
        /\ Get(it.v, <<"model">>).t = "map"
        /\ ModelViolations(Get(it.v, <<"model">>), <<>>) # {} }

SharedDocument(provider, id, api_key) ==
    Map(<< Item(<<"version">>, Str(<<"1.0">>)),
           Item(<<"models">>, Map(<<Item(<<"m">>, ModelNode(provider, id, api_key))>>)),
           Item(<<"agents">>,
                Map(<< Item(<<"a">>, AgentNode(RefToken(PathModel), <<"azure_openai">>)),
                       Item(<<"b">>, AgentNode(RefToken(PathModel), <<"openai">>)) >>)),
           Item(<<"tools">>, Map(<<>>)) >>)

InitShared ==
    /\ \E provider \in {<<"azure_openai">>, EnvToken(<<"X">>)}, id \in IdPool,
          api_key \in ApiKeyPool :
            doc = SharedDocument(provider, id, api_key)
    /\ env \in LoadEnvs
    /\ pc = "start"
    /\ cur = None
    /\ prev = None
    /\ err = NoErr
    /\ config = None

SpecShared == InitShared /\ [][Next]_vars

\* the fields of a Model two references to it must agree on
SharedFields(m) == <<m.id, m.provider, m.config, m.params>>

\* C21 (shared model): when several agents of a document reference the same
\* path ${ref:models.M}, each of them loads with a ModelConfig whose id,
\* provider, config and params equal those of the other agents and those of
\* the entry M of models.
C21_SharedModel ==
    pc = "loaded" =>
        \A i \in 1..Len(config.agents) :
            /\ config.agents[i].v.model.cls = "ModelConfig"
            /\ SharedFields(config.agents[i].v.model)
                  = SharedFields(EntryOf(config.models, <<"m">>))
            /\ \A j \in 1..Len(config.agents) :
                  SharedFields(config.agents[i].v.model)
                      = SharedFields(config.agents[j].v.model)

\* ------------------------------------------------------------------------
\* Claims about the queries of an agent
\* ------------------------------------------------------------------------

\* the last query was a call of the agent method op
AskedAgent(op) == pc = "built" /\ prev # None /\ prev.on # <<>> /\ prev.op = op

\* the agent the last query was sent to
Asking == Receiver(EntryOf(config.agents, prev.on), prev)

\* what a model accessor promises of its outcome for an agent whose model is
\* a ModelConfig
Accessed(op, model, outcome) ==
    /\ outcome.t = "ret"
    /\ op = "get_resolved_model" => outcome.v = model
    /\ op = "get_model_provider" => outcome.v = model.provider
    /\ op = "get_model_id" => outcome.v = model.id
    /\ op = "get_model_config" => outcome.v = model.config
    /\ op = "get_model_params" =>
          outcome.v = IF model.params = None THEN Map(<<>>) ELSE model.params

\* C22 (agent model accessors): get_resolved_model() returns the model the
\* agent holds, get_model_provider(), get_model_id(), get_model_config() and
\* get_model_params() return that model's provider, id, config and params,
\* get_model_params() returns the empty mapping when the model declares no
\* params, and each of them raises when the agent's model is no ModelConfig.
C22_ModelAccessors ==
    \A op \in ModelAccessors :
        AskedAgent(op) =>
            IF IsModelConfig(Asking.model)
            THEN Accessed(op, Asking.model, cur)
            ELSE cur.t = "raise"

\* the params of an agent whose model declares none: the empty mapping
C22_Witness ==
    /\ AskedAgent("get_model_params")
    /\ prev.on = <<"b">>
    /\ Get(At(doc, <<"agents", "b">>), <<"model">>) = ParamlessModel
    /\ IsModelConfig(Asking.model)
    /\ Asking.model.params = None
    /\ cur = Ret(Map(<<>>))

\* an accessor of an agent whose model is still a string raises
C22_RaiseWitness ==
    /\ AskedAgent("get_model_id")
    /\ prev.arg = Str(<<"m">>)
    /\ cur = Raised("ValueError")

\* ------------------------------------------------------------------------
\* Claims about embedded references
\* ------------------------------------------------------------------------

\* the value at a path of the document is a mapping or a sequence
Structured(root, d) ==
    /\ LookupPath(root, SplitPath(d)).found
    /\ LookupPath(root, SplitPath(d)).v.t \in {"map", "list"}

\* the strings of a tree that embed a reference to a mapping or a sequence
\* in a longer text
EmbedsStructured(root) ==
    { s \in StringsOf(root) :
        ~IsWholeRef(s) /\ \E d \in RefTokenPaths(s) : Structured(root, d) }

\* C23 (embedded reference to a structured value): a ${ref:path} embedded
\* in a longer string whose path holds a mapping or a sequence makes the
\* resolution fail with an error; no rendering of the value is spliced into
\* the text and the token is not left in place.
C23_EmbeddedStructured ==
    RefPassRan =>
        \A s \in EmbedsStructured(prev) :
            /\ pc = "failed"
            /\ config = None
            /\ err.kind \in RefErrors
            /\ ~resolve_value(Str(s), prev, {}, 0).ok
            /\ resolve_value(Str(s), prev, {}, 0).err.kind \in RefErrors

\* the platform of an agent embeds a reference to the mapping models.m, and
\* the load fails on it
C23_Witness ==
    /\ pc = "failed"
    /\ err = [kind |-> "embedded", name |-> Dotted(PathModel)]
    /\ At(prev, PathPlatform) = Str(<<"on-">> \o RefToken(PathModel))
    /\ At(prev, PathModel).t = "map"

\* ------------------------------------------------------------------------
\* Claims about the system prompt
\* ------------------------------------------------------------------------

\* the path of the prompt of the document, as written
PromptPath == Get(Get(Get(Get(doc, <<"agents">>), <<"a">>), <<"system_prompt">>), <<"path">>)

\* the text ends with ".md" or ".txt", in exactly this case
HasPromptExtension(s) ==
    /\ Len(s) >= 2
    /\ s[Len(s) - 1] = DOT
    /\ s[Len(s)] \in {"md", "txt"}

\* the path after environment substitution has one of the two extensions
PromptPathValid ==
    /\ substitute_env_vars(PromptPath, env).ok
    /\ HasPromptExtension(substitute_env_vars(PromptPath, env).v.s)

\* C24 (system prompt path): SystemPromptConfig constructs only if, after
\* environment substitution, path ends with ".md" or ".txt" (in this case);
\* with any other path the prompt, the agent around it and the configuration
\* around the agent all fail to construct, with a validation error.
C24_PromptPath ==
    /\ pc \in {"prompt", "agent", "built", "invalid"} => (cur.ok <=> PromptPathValid)
    /\ pc \in {"agent", "built", "invalid"} => (prev.ok <=> PromptPathValid)
    /\ pc = "built" => PromptPathValid
    /\ pc \in {"built", "invalid"} /\ ~PromptPathValid =>
          /\ pc = "invalid"
          /\ config = None
          /\ err.kind = "validation"
          /\ cur.err.kind = "validation"
          /\ prev.err.kind = "validation"

\* a path whose extension differs from ".md" in case only is refused at all
\* three levels
C24_Witness ==
    /\ pc = "invalid"
    /\ PromptPath = Str(<<"test", DOT, "MD">>)
    /\ ~cur.ok
    /\ ~prev.ok
    /\ err.kind = "validation"

\* ------------------------------------------------------------------------
\* Claims about the shape of substituted trees
\* ------------------------------------------------------------------------

\* two trees of the same shape: mappings with the same keys in the same
\* order, sequences of the same length, strings in the place of strings,
\* and every other scalar unchanged
RECURSIVE SameShape(_, _)
SameShape(before, after) ==
    CASE before.t = "str" -> after.t = "str"
      [] before.t = "map" ->
            /\ after.t = "map"
            /\ Len(after.items) = Len(before.items)
            /\ \A i \in 1..Len(before.items) :
                  /\ after.items[i].k = before.items[i].k
                  /\ SameShape(before.items[i].v, after.items[i].v)
      [] before.t = "list" ->
            /\ after.t = "list"
            /\ Len(after.items) = Len(before.items)
            /\ \A i \in 1..Len(before.items) :
                  SameShape(before.items[i], after.items[i])
      [] OTHER -> after = before

\* C25 (structure preservation of env substitution): a successful
\* substitute_env_vars returns a tree of the shape of its input: every
\* mapping keeps its keys and their order, and a key is never substituted
\* even when it holds ${env:...}; every sequence keeps its length and
\* order; numbers and null are returned unchanged; the input tree is left
\* as it was.
C25_StructurePreservation ==
    /\ pc \in {"once", "twice"} => SameShape(prev, cur)
    /\ pc \in {"once", "raised"} => prev = doc

\* a tree with the key ${env:X} and a string that was substituted: the key
\* stays, the number and the null stay
C25_Witness ==
    /\ pc = "once"
    /\ IsSet(env, <<"X">>)
    /\ cur # prev
    /\ prev.items[3].k = EnvToken(<<"X">>)
    /\ cur.items[3] = Item(EnvToken(<<"X">>), None)
    /\ cur.items[2].v.items[2] = Num(7)

\* C26 (placeholder grammar): only the exact, case-sensitive ${env:NAME}
\* is a placeholder of NAME.  A text with other case (${ENV:X}) or with a
\* blank inside the braces (${env: X}, ${env:X }) is never replaced by the
\* value of X: the upper-case text stays as it is, and the text with a
\* blank is looked up under the name with the blank.
C26_ExactGrammar ==
    /\ (pc = "once" /\ SecondString(doc) = UpperToken) =>
            SecondString(cur) = UpperToken
    /\ (pc = "once" /\ SecondString(doc) = LeadingBlankToken) =>
            /\ IsSet(env, <<" ", "X">>)
            /\ SecondString(cur) = env[<<" ", "X">>].val
    /\ (pc = "once" /\ SecondString(doc) = TrailingBlankToken) =>
            /\ IsSet(env, <<"X", " ">>)
            /\ SecondString(cur) = env[<<"X", " ">>].val
    /\ (pc = "once" /\ SecondString(doc) \in NearTokens /\ IsSet(env, <<"X">>)) =>
            SecondString(cur) # env[<<"X">>].val
    /\ (pc = "raised" /\ SecondString(doc) \in NearTokens) =>
            \/ err.name \in EnvTokenNames(FirstString(doc))
            \/ /\ err.name \in BlankNames
               /\ ~IsSet(env, err.name)

\* X is set, the variable with the blank is not: ${env: X} raises for the
\* name with the blank
C26_Witness ==
    /\ pc = "raised"
    /\ SecondString(doc) = LeadingBlankToken
    /\ IsSet(env, <<"X">>)
    /\ err = [kind |-> "env", name |-> <<" ", "X">>]

\* X is set and ${ENV:X} is loaded as text
C26_UpperWitness ==
    /\ pc = "once"
    /\ SecondString(doc) = UpperToken
    /\ IsSet(env, <<"X">>)
    /\ SecondString(cur) = UpperToken

\* ------------------------------------------------------------------------
\* AgentConfig.validate_tools on its own
\* ------------------------------------------------------------------------

\* what a list of tools can hold: a reference string with and without ".",
\* a dictionary, a tool object already built, a number
ToolElements ==
    { Str(<<"openapi", DOT, "weather">>),
      Str(<<"weather">>),
      NativeTool(<<"bing">>),
      OpenAPIToolConfig(OpenAPITool(<<"weather">>)).v,
      Num(7) }

\* the values given as tools: lists of elements, and values that are no list
ToolsValues ==
    { List(items) : items \in UNION {[1..n -> ToolElements] : n \in 0..MaxTools} }
        \cup { None, Str(<<"openapi", DOT, "weather">>), NativeTool(<<"bing">>), Num(7) }

InitTools ==
    /\ doc \in ToolsValues
    /\ env = NoEnv
    /\ pc = "given"
    /\ cur = None
    /\ prev = None
    /\ err = NoErr
    /\ config = None

\* the field validator is called with the value of tools
ValidateTools ==
    /\ pc = "given"
    /\ pc' = IF validate_tools(doc).ok THEN "validated" ELSE "rejected"
    /\ cur' = validate_tools(doc).v
    /\ err' = validate_tools(doc).err
    /\ UNCHANGED <<doc, env, prev, config>>

NextTools == ValidateTools

SpecTools == InitTools /\ [][NextTools]_vars

\* a string element without the separator
Dotless(tool) == IsString(tool) /\ ~HasLexeme(tool.s, DOT)

\* C27 (tool list pre-validation): validate_tools rejects a value that is
\* no list and a list with a string element that has no "."; every other
\* list is returned with its elements unchanged and in order: strings with
\* a separator, dictionaries and tool objects alike.
C27_ToolsPreValidation ==
    /\ pc = "validated" =>
            /\ doc.t = "list"
            /\ \A i \in 1..Len(doc.items) : ~Dotless(doc.items[i])
            /\ cur = doc.items
    /\ pc = "rejected" =>
            \/ doc.t # "list" /\ err.name = <<"Tools must be a list">>
            \/ /\ doc.t = "list"
               /\ \E i \in 1..Len(doc.items) : Dotless(doc.items[i])
               /\ err.name # <<"Tools must be a list">>

\* a reference string, a dictionary and a tool object come back in order
C27_Witness ==
    /\ pc = "validated"
    /\ doc = List(<< Str(<<"openapi", DOT, "weather">>),
                     NativeTool(<<"bing">>),
                     OpenAPIToolConfig(OpenAPITool(<<"weather">>)).v >>)
    /\ cur = doc.items

\* a dictionary given as tools, and a list whose last element has no "."
C27_RejectWitness ==
    /\ pc = "rejected"
    /\ \/ doc = NativeTool(<<"bing">>)
       \/ doc = List(<<NativeTool(<<"bing">>), Str(<<"weather">>)>>)

\* ------------------------------------------------------------------------
\* Claims about the layers of environment substitution
\* ------------------------------------------------------------------------

PathId == <<"models", "m", "id">>

\* C28 (environment values are inserted once): a document value ${env:X}
\* loads as the text of X as it is, also when that text looks like a
\* placeholder (X = "${env:Y}"); the layers that substitute after the
\* loader (AIConfig, AgentConfig, SystemPromptConfig) neither expand the
\* inserted text nor fail on a variable that only the environment names.
C28_InsertedOnce ==
    /\ \A n \in EnvNames :
          (pc = "loaded" /\ At(doc, PathId) = Str(EnvToken(n))) =>
              /\ IsSet(env, n)
              /\ EntryOf(config.models, <<"m">>).id = env[n].val
    /\ (pc = "failed" /\ UnsetNames(doc, env) = {}) => err.name \notin EnvNames

\* ------------------------------------------------------------------------
\* Claims about the cross-reference check
\* ------------------------------------------------------------------------

\* the model of an agent of the document carries a non-empty name that is
\* no key of the document's models
CarriesUnknownName(values, it) ==
    /\ Get(it.v, <<"model">>).t = "map"
    /\ HasStr(Get(it.v, <<"model">>), <<"name">>)
    /\ Get(Get(it.v, <<"model">>), <<"name">>).s # <<>>
    /\ Get(Get(it.v, <<"model">>), <<"name">>).s
          \notin Keys(Get(values, <<"models">>).items)

\* the places, in the order of the mapping, of the agents with such a model
UnknownPlaces(values) ==
    { i \in 1..Len(Get(values, <<"agents">>).items) :
        CarriesUnknownName(values, Get(values, <<"agents">>).items[i]) }

FirstUnknownAgent(values) ==
    Get(values, <<"agents">>).items[
        CHOOSE i \in UnknownPlaces(values) : \A j \in UnknownPlaces(values) : i <= j]

\* C29 (scope of the cross-reference check): a document without field
\* errors is rejected by validate_cross_references exactly when the model
\* of some agent carries a non-empty name that is no key of models; the
\* error names the first such agent in the order of the mapping, the name
\* of its model and the available names.  A model without a name, or with
\* an empty one, is accepted without a lookup in models.
C29_CrossReferenceScope ==
    /\ pc = "built" => UnknownPlaces(doc) = {}
    /\ (pc = "invalid" /\ AIConfigFieldViolations(doc, env) = {}) =>
          /\ UnknownPlaces(doc) # {}
          /\ cur.set = {Violation(<<<<"agents">>, FirstUnknownAgent(doc).k>>,
                                  "unknown model")}
          /\ cur.message =
                [agent |-> FirstUnknownAgent(doc).k,
                 model |-> Get(Get(FirstUnknownAgent(doc).v, <<"model">>), <<"name">>).s,
                 available |-> Keys(Get(doc, <<"models">>).items)]

\* both agents name an unknown model: the error is about the first
C29_Witness ==
    /\ pc = "invalid"
    /\ AIConfigFieldViolations(doc, env) = {}
    /\ UnknownPlaces(doc) = {1, 2}
    /\ cur.message = [agent |-> <<"a">>, model |-> <<"x">>, available |-> {<<"m">>}]

\* a model with an empty name, and one without a name, are accepted
C29_UnnamedWitness ==
    /\ pc = "built"
    /\ config.agents[2].v.model.name = Str(<<>>)
    /\ config.agents[1].v.model.name = None

\* ------------------------------------------------------------------------
\* Claims about the tools of an agent by type
\* ------------------------------------------------------------------------

\* sub is full with some elements left out, the others in their order
IsSubList(sub, full) ==
    \E f \in [1..Len(sub) -> 1..Len(full)] :
        /\ \A i \in 1..Len(sub) : sub[i] = full[f[i]]
        /\ \A i \in 1..Len(sub) : \A j \in 1..Len(sub) : i < j => f[i] < f[j]

OfOpenAPI(agent) == get_tools_by_type(agent, Str(<<"openapi">>)).v
OfAIFoundry(agent) == get_tools_by_type(agent, Str(<<"ai_foundry">>)).v

\* the two lists by type split the tools of an agent
Partitioned(agent) ==
    /\ IsSubList(OfOpenAPI(agent), agent.tools)
    /\ IsSubList(OfAIFoundry(agent), agent.tools)
    /\ Range(OfOpenAPI(agent)) \cap Range(OfAIFoundry(agent)) = {}
    /\ Range(OfOpenAPI(agent)) \cup Range(OfAIFoundry(agent)) = Range(agent.tools)
    /\ Num(Len(OfOpenAPI(agent)) + Len(OfAIFoundry(agent))) = get_tool_count(agent).v

\* has_tool_type agrees with get_tools_by_type, for the two types and for
\* any other string
TypeAnswersAgree(agent) ==
    \A tool_type \in ToolTypeArgs :
        /\ has_tool_type(agent, tool_type)
              = Ret(Bool(get_tools_by_type(agent, tool_type).v # <<>>))
        /\ tool_type \notin {Str(<<"openapi">>), Str(<<"ai_foundry">>)} =>
              /\ has_tool_type(agent, tool_type) = Ret(Bool(FALSE))
              /\ get_tools_by_type(agent, tool_type) = Ret(<<>>)

\* C30 (tools-by-type partition): for every agent the lists
\* get_tools_by_type("openapi") and get_tools_by_type("ai_foundry") are
\* sub-lists of its tools in their order, have no tool in common and hold
\* every tool between them, so that their lengths add up to
\* get_tool_count(); has_tool_type(t) is true exactly when
\* get_tools_by_type(t) is not empty; for any other type string
\* has_tool_type is False and get_tools_by_type is the empty list.
C30_ToolsByType ==
    /\ pc = "built" =>
          \A i \in 1..Len(config.agents) :
              /\ Partitioned(config.agents[i].v)
              /\ TypeAnswersAgree(config.agents[i].v)
    /\ AskedAgent("get_tools_by_type") =>
          /\ cur.t = "ret"
          /\ IsSubList(cur.v, Asking.tools)
          /\ \A k \in 1..Len(Asking.tools) :
                (Asking.tools[k] \in Range(cur.v)) <=>
                    \/ prev.arg = Str(<<"openapi">>) /\ IsOpenAPI(Asking.tools[k])
                    \/ prev.arg = Str(<<"ai_foundry">>) /\ IsAIFoundry(Asking.tools[k])
    /\ AskedAgent("has_tool_type") =>
          cur = Ret(Bool(get_tools_by_type(Asking, prev.arg).v # <<>>))
    /\ AskedAgent("get_tool_count") => cur = Ret(Num(Len(Asking.tools)))

\* an agent with one tool of each type is asked for its OpenAPI tools: the
\* second of its two tools is returned
C30_Witness ==
    /\ AskedAgent("get_tools_by_type")
    /\ prev.arg = Str(<<"openapi">>)
    /\ Len(Asking.tools) = 2
    /\ IsAIFoundry(Asking.tools[1])
    /\ cur = Ret(<<Asking.tools[2]>>)

\* an agent with tools is asked for a type that is neither of the two
C30_OtherWitness ==
    /\ AskedAgent("has_tool_type")
    /\ prev.arg = Str(<<"other">>)
    /\ Len(Asking.tools) = 2
    /\ cur = Ret(Bool(FALSE))

====
